---- MODULE Spec2Model ----
(***************************************************************************)
(* Verification model of the MOGREPS-UK cross-section pipeline             *)
(* (src/m_uk_leeming.py) and of the Best Data pipeline                     *)
(* (src/bd_uas_forecast.py).                                               *)
(*                                                                         *)
(* The module holds several specifications over one set of variables:      *)
(*   SpecProbs  - calc_probs, rain_probs and vis_temp_probs applied to     *)
(*                bounded member cubes and threshold lists;                *)
(*   SpecAgg    - probs_and_plots, vis_sfc_temp_plots and rain_plots run   *)
(*                hour by hour over a collected list of fragments;         *)
(*   Spec       - m_uk_leeming.main: the worker processes, the queue, the  *)
(*                fan-in of their results and the site loop;               *)
(*   SpecBd     - bd_uas_forecast.main: the loop over the trial sites;     *)
(*   SpecWorker - data_from_files: one batch's loops over members, files   *)
(*                and sites, with absent files and failing derivations;    *)
(*   SpecPar    - several data_from_files calls side by side: what each    *)
(*                creates and writes;                                      *)
(*   SpecDeriv  - one call of a derivation (get_wind_spd, get_temps,       *)
(*                get_sfc_temps, get_rel_hums, get_rains, get_vis) on the  *)
(*                cube of one file.                                        *)
(* Every specification leaves the variables of the other parts at their    *)
(* idle values.                                                            *)
(***************************************************************************)
EXTENDS Integers, Sequences, FiniteSets, TLC

VARIABLES
    p_cube,     \* the cube handed to a probability function: one slice per member
    p_threshs,  \* the threshold list the caller iterates over
    p_temp,     \* calc_probs' temp_thresh flag
    p_op,       \* which probability function has run: "none", "calc", "rain", "vis"
    p_out,      \* the probability arrays returned, one per threshold
    a_sel,      \* the aggregation run: a param of probs_and_plots, a wx_type or "rain"
    a_cubes,    \* cube_list: the collected fragments of one site and variable
    a_hour,     \* hours of the window already visited by the hour loop
    a_probs,    \* prob_lists: per threshold, the probability cubes appended so far
    a_pc,       \* "five_min" (rain_plots only), "hours", "plot", "done" or "raised"
    new_data,   \* main's new_data argument: "yes" or "no"
    m_input,    \* what the HPC holds for this run (decides the workers' results)
    main_pc,    \* main's position
    m_started,  \* processes started so far by the start loop
    w_pc,       \* per batch hour: "new", "running", "returned" or "crashed"
    queue,      \* the multiprocessing queue
    out_list,   \* the results main took from the queue
    cube_lists, \* the per-variable, per-site merged collections
    m_sites,    \* iterations of the site loop begun so far
    bd_pc,      \* bd_uas_forecast.main: "select", "read", "plots", "html", "done", "raised"
    bd_i,       \* index of the trial site being processed
    bd_n,       \* number of Best Data sites the selection returned for it
    bd_k,       \* index of the Best Data site being plotted
    bd_plot,    \* make_plot calls done for that Best Data site
    bd_pages,   \* trial sites whose page update_html has rewritten
    d_pc,       \* data_from_files: "begin", "copy", "site", "remove", "returned", "raised"
    d_members,  \* number of member directories get_fname_strs found
    d_nf,       \* number of file numbers get_fname_strs selected
    d_zero,     \* the first file number selected is '000'
    d_member,   \* index of the member being processed
    d_fnum,     \* index of the file number being processed
    d_site,     \* index of the site being processed
    d_files,    \* the scratch files of the current member and file number
    d_cubes,    \* the six dictionaries of fragment lists being filled
    d_hist,     \* what happened at each (member, file, site) visited so far
    d_faults,   \* absent files, missing fields and failing derivations so far
    d_scratch,  \* the paths of this call's files in the scratch directory
    par_pc,     \* per concurrent worker: operations of its call done so far
    par_created, \* the fragment lists created so far, each with its creator
    par_writes, \* the writes done so far, each with its writer
    dv_kind,    \* the variable whose derivation data_from_files calls
    dv_cube,    \* the cube loaded from the file: realization coordinate, data by valid time
    dv_out,     \* the cube the derivation returned
    dv_pc,      \* "call", "returned", or "failed" (the derivation raised)
    ws_pc,      \* get_wind_spd's position: "load", "u_updated", "v_updated", "combined"
    ws_in,      \* the U and V components loaded from the file, in m s-1
    ws_u,       \* u_cube: its value and units
    ws_v,       \* v_cube: its value and units
    ws_out,    \* wind_spd_cube: the square of its value, and its units
    pl_pc,      \* get_bd_df's plotting loop: "plots" or "done"
    pl_n,       \* the number of Best Data sites to plot
    pl_k,       \* the make_plot calls done so far
    pl_tables,  \* the module-level threshold tables of bd_uas_forecast
    pl_default, \* the list object that is make_plot's default thresholds
    pl_passed,  \* the list the last make_plot call was passed, as it was at the call
    pl_after,  \* the same list when that call returned
    fn_pc,      \* get_fname_strs: "call" or "returned"
    fn_in,      \* its arguments in whole hours and the pieces of the directory listing
    fn_out,    \* member_strs and f_nums as returned
    h_pc,       \* one run of main for a site: "plots" (before the plots) or "html" (before update_html)
    h_now,      \* the current time in hours
    h_date,     \* the date handed to update_html: the issue time in hours
    h_page,     \* the lines of the page before its last 17 and the date its image lines show; <<>> while the page does not exist
    h_imgs,     \* the dates with image files in the image directory
    h_mass,     \* the dates with image files archived to MASS
    h_calls,   \* the update_html calls done
    wn_pc,      \* main's window computation: "call" or "done"
    wn_now,     \* now_hour, in hours since FIRST_DT
    wn_out      \* start_vdt and end_vdt as main computed them

probVars == <<p_cube, p_threshs, p_temp, p_op, p_out>>
aggVars == <<a_sel, a_cubes, a_hour, a_probs, a_pc>>
mainVars == <<new_data, m_input, main_pc, m_started, w_pc, queue, out_list,
              cube_lists, m_sites>>
bdVars == <<bd_pc, bd_i, bd_n, bd_k, bd_plot, bd_pages>>
workerVars == <<d_pc, d_members, d_nf, d_zero, d_member, d_fnum, d_site,
                d_files, d_cubes, d_hist, d_faults, d_scratch>>
parVars == <<par_pc, par_created, par_writes>>
derivVars == <<dv_kind, dv_cube, dv_out, dv_pc>>
windVars == <<ws_pc, ws_in, ws_u, ws_v, ws_out>>
plotVars == <<pl_pc, pl_n, pl_k, pl_tables, pl_default, pl_passed, pl_after>>
fnamesVars == <<fn_pc, fn_in, fn_out>>
htmlVars == <<h_pc, h_now, h_date, h_page, h_imgs, h_mass, h_calls>>
windowVars == <<wn_pc, wn_now, wn_out>>

vars == <<p_cube, p_threshs, p_temp, p_op, p_out,
          a_sel, a_cubes, a_hour, a_probs, a_pc,
          new_data, m_input, main_pc, m_started, w_pc, queue, out_list,
          cube_lists, m_sites,
          bd_pc, bd_i, bd_n, bd_k, bd_plot, bd_pages,
          d_pc, d_members, d_nf, d_zero, d_member, d_fnum, d_site, d_files,
          d_cubes, d_hist, d_faults, d_scratch,
          par_pc, par_created, par_writes,
          dv_kind, dv_cube, dv_out, dv_pc,
          ws_pc, ws_in, ws_u, ws_v, ws_out,
          pl_pc, pl_n, pl_k, pl_tables, pl_default, pl_passed, pl_after,
          fn_pc, fn_in, fn_out,
          h_pc, h_now, h_date, h_page, h_imgs, h_mass, h_calls,
          wn_pc, wn_now, wn_out>>

\* what each part leaves alone
notProbVars == <<aggVars, mainVars, bdVars, workerVars, parVars, derivVars, windVars, plotVars, fnamesVars, htmlVars, windowVars>>
notAggVars == <<probVars, mainVars, bdVars, workerVars, parVars, derivVars, windVars, plotVars, fnamesVars, htmlVars, windowVars>>
notMainVars == <<probVars, aggVars, bdVars, workerVars, parVars, derivVars, windVars, plotVars, fnamesVars, htmlVars, windowVars>>
notBdVars == <<probVars, aggVars, mainVars, workerVars, parVars, derivVars, windVars, plotVars, fnamesVars, htmlVars, windowVars>>
notWorkerVars == <<probVars, aggVars, mainVars, bdVars, parVars, derivVars, windVars, plotVars, fnamesVars, htmlVars, windowVars>>
notParVars == <<probVars, aggVars, mainVars, bdVars, workerVars, derivVars, windVars, plotVars, fnamesVars, htmlVars, windowVars>>
notDerivVars == <<probVars, aggVars, mainVars, bdVars, workerVars, parVars, windVars, plotVars, fnamesVars, htmlVars, windowVars>>
notWindVars == <<probVars, aggVars, mainVars, bdVars, workerVars, parVars, derivVars, plotVars, fnamesVars, htmlVars, windowVars>>
notPlotVars == <<probVars, aggVars, mainVars, bdVars, workerVars, parVars, derivVars, windVars, fnamesVars, htmlVars, windowVars>>
notFnamesVars == <<probVars, aggVars, mainVars, bdVars, workerVars, parVars, derivVars, windVars, plotVars, htmlVars, windowVars>>
notHtmlVars == <<probVars, aggVars, mainVars, bdVars, workerVars, parVars, derivVars, windVars, plotVars, fnamesVars, windowVars>>
notWindowVars == <<probVars, aggVars, mainVars, bdVars, workerVars, parVars, derivVars, windVars, plotVars, fnamesVars, htmlVars>>

(***************************************************************************)
(* Bounds of the model.                                                    *)
(***************************************************************************)
MaxVal == 1          \* member values range over -1..MaxVal
MaxMembers == 2      \* members of a cube handed to a probability function
NumHours == 2        \* num_fps: whole hours from start_vdt to end_vdt
MaxFrags == 2        \* fragments in a collected cube list
MaxBdSites == 2      \* Best Data sites returned by one site selection
MaxMemberStrs == 2   \* member directories of one batch
MaxFNums == 2        \* file numbers of one batch
MaxFaults == 1       \* absent files, missing fields and failing derivations of one batch
SubsPerHour == 2     \* five-minute valid times modelled per hour (12 in the program)
ParWorkers == 2      \* worker processes running side by side in SpecPar
ParMembers == 1      \* member directories of each of them
ParFNums == 2        \* file numbers of each of them
MaxWind == 3         \* wind components range over -MaxWind..MaxWind m s-1
MaxPlotSites == 3    \* Best Data sites get_bd_df plots for one trial site
NumFNames == 4       \* file numbers 000, 003, ... taken from FNAME_NUMS
FnSpan == 6          \* get_fname_strs: hours m_date lies back, and the window reaches
MaxHtmlCalls == 4    \* update_html calls on one page
MaxLate == 60        \* hours main may run after FIRST_DT

(***************************************************************************)
(* Program constants.                                                      *)
(***************************************************************************)
WIND_THRESHS == <<12, 15, 20, 25>>
TEMP_THRESHS == <<0, 20, 25, 30>>
SFC_TEMP_THRESHS == <<-3, 0, 3>>
REL_HUM_THRESHS == <<40, 95>>
RAIN_THRESHS == <<1, 5, 20>>     \* [0.2, 1., 4.] mm hr-1, in fifths of a mm hr-1
VIS_THRESHS == <<10000, 5000, 1000, 500, 200>>
SITE_NAMES == <<"Leeming", "Waddington">>
CONTROL_REALIZATION == 100
TRIAL_SITES == <<"Leeming", "Waddington">>

(***************************************************************************)
(* The idle values of each part, held while another part runs.             *)
(***************************************************************************)
ProbsIdle ==
    /\ p_cube = <<>>
    /\ p_threshs = <<>>
    /\ p_temp = FALSE
    /\ p_op = "none"
    /\ p_out = <<>>

AggIdle ==
    /\ a_sel = "none"
    /\ a_cubes = <<>>
    /\ a_hour = 0
    /\ a_probs = <<>>
    /\ a_pc = "idle"

MainIdle ==
    /\ new_data = "none"
    /\ m_input = "none"
    /\ main_pc = "idle"
    /\ m_started = 0
    /\ w_pc = <<>>
    /\ queue = <<>>
    /\ out_list = <<>>
    /\ cube_lists = <<>>
    /\ m_sites = 0

BdIdle ==
    /\ bd_pc = "idle"
    /\ bd_i = 0
    /\ bd_n = 0
    /\ bd_k = 0
    /\ bd_plot = 0
    /\ bd_pages = {}

WorkerIdle ==
    /\ d_pc = "idle"
    /\ d_members = 0
    /\ d_nf = 0
    /\ d_zero = FALSE
    /\ d_member = 0
    /\ d_fnum = 0
    /\ d_site = 0
    /\ d_files = <<>>
    /\ d_cubes = <<>>
    /\ d_hist = <<>>
    /\ d_faults = 0
    /\ d_scratch = {}

ParIdle ==
    /\ par_pc = <<>>
    /\ par_created = {}
    /\ par_writes = {}

DerivIdle ==
    /\ dv_kind = "none"
    /\ dv_cube = <<>>
    /\ dv_out = <<>>
    /\ dv_pc = "idle"

WindIdle ==
    /\ ws_pc = "idle"
    /\ ws_in = <<>>
    /\ ws_u = <<>>
    /\ ws_v = <<>>
    /\ ws_out = <<>>

PlotIdle ==
    /\ pl_pc = "idle"
    /\ pl_n = 0
    /\ pl_k = 0
    /\ pl_tables = <<>>
    /\ pl_default = <<>>
    /\ pl_passed = <<>>
    /\ pl_after = <<>>

FnamesIdle ==
    /\ fn_pc = "idle"
    /\ fn_in = <<>>
    /\ fn_out = <<>>

HtmlIdle ==
    /\ h_pc = "idle"
    /\ h_now = 0
    /\ h_date = 0
    /\ h_page = <<>>
    /\ h_imgs = {}
    /\ h_mass = {}
    /\ h_calls = 0

WindowIdle ==
    /\ wn_pc = "idle"
    /\ wn_now = 0
    /\ wn_out = <<>>

(***************************************************************************)
(* Probability functions.  A cube is a sequence of member slices           *)
(* (cube.slices_over("realization")), each a record with the member's      *)
(* realization and its data, a function from the cube's levels to values.  *)
(* A probability is the float (sum / len) * 100, kept exact as the         *)
(* fraction num / den.                                                     *)
(***************************************************************************)
LevelsOf(cube) == DOMAIN cube[1].data

\* (mem_cube.data >= threshold).astype(int)
EventGe(v, threshold) == IF v >= threshold THEN 1 ELSE 0

\* (mem_cube.data <= threshold).astype(int)
EventLe(v, threshold) == IF v <= threshold THEN 1 ELSE 0

\* sum(events) at one level: the events of the members added in turn
RECURSIVE SumEvents(_, _)
SumEvents(events, l) ==
    IF events = <<>> THEN 0
    ELSE events[1][l] + SumEvents(Tail(events), l)

\* (sum(events) / len(events)) * 100
Percent_divByLevels(events, levels) ==
    [l \in levels |-> [num |-> SumEvents(events, l) * 100,
                       den |-> Cardinality(levels)]]

Percent_noDivision(events, levels) ==
    [l \in levels |-> [num |-> SumEvents(events, l) * 100, den |-> 1]]

Percent(events, levels) ==
    [l \in levels |-> [num |-> SumEvents(events, l) * 100,
                       den |-> Len(events)]]

calc_probs_underForAnyTemp(cube, threshold, temp_thresh) ==
    LET events ==
            IF temp_thresh
            THEN [i \in 1..Len(cube) |->
                    [l \in LevelsOf(cube) |-> EventLe(cube[i].data[l], threshold)]]
            ELSE [i \in 1..Len(cube) |->
                    [l \in LevelsOf(cube) |-> EventGe(cube[i].data[l], threshold)]]
    IN  Percent(events, LevelsOf(cube))

calc_probs(cube, threshold, temp_thresh) ==
    LET events ==
            IF threshold = 0 /\ temp_thresh
            THEN [i \in 1..Len(cube) |->
                    [l \in LevelsOf(cube) |-> EventLe(cube[i].data[l], threshold)]]
            ELSE [i \in 1..Len(cube) |->
                    [l \in LevelsOf(cube) |-> EventGe(cube[i].data[l], threshold)]]
    IN  Percent(events, LevelsOf(cube))

vis_temp_probs(cube, threshold) ==
    Percent([i \in 1..Len(cube) |->
                [l \in LevelsOf(cube) |-> EventLe(cube[i].data[l], threshold)]],
            LevelsOf(cube))

rain_probs_below(cube, threshold) == vis_temp_probs(cube, threshold)

rain_probs(cube, threshold) ==
    Percent([i \in 1..Len(cube) |->
                [l \in LevelsOf(cube) |-> EventGe(cube[i].data[l], threshold)]],
            LevelsOf(cube))

(***************************************************************************)
(* SpecProbs: the probability functions on bounded inputs.                 *)
(***************************************************************************)
PLevels == {0, 1}                 \* model_level_number of the two levels
PVals == -1..MaxVal
PThreshs == -1..(MaxVal + 1)
PCubes ==
    UNION {{[i \in 1..n |-> [realization |-> i, data |-> d[i]]]
              : d \in [1..n -> [PLevels -> PVals]]}
           : n \in 1..MaxMembers}

InitProbs ==
    /\ p_cube \in PCubes
    /\ p_threshs \in [1..2 -> PThreshs]
    /\ p_temp \in BOOLEAN
    /\ p_op = "none"
    /\ p_out = <<>>
    /\ AggIdle
    /\ MainIdle
    /\ BdIdle
    /\ WorkerIdle
    /\ ParIdle
    /\ DerivIdle
    /\ WindIdle
    /\ PlotIdle
    /\ FnamesIdle
    /\ HtmlIdle
    /\ WindowIdle

\* prob_cubes = [calc_probs(hour_cube, thresh, temp_thresh) for thresh in thresholds]
DoCalcProbs ==
    /\ p_op = "none"
    /\ p_op' = "calc"
    /\ p_out' = [k \in 1..Len(p_threshs) |-> calc_probs(p_cube, p_threshs[k], p_temp)]
    /\ UNCHANGED <<p_cube, p_threshs, p_temp>>
    /\ UNCHANGED notProbVars

\* prob_cubes = [rain_probs(max_in_hour_cube, thresh) for thresh in RAIN_THRESHS]
DoRainProbs ==
    /\ p_op = "none"
    /\ p_op' = "rain"
    /\ p_out' = [k \in 1..Len(p_threshs) |-> rain_probs(p_cube, p_threshs[k])]
    /\ UNCHANGED <<p_cube, p_threshs, p_temp>>
    /\ UNCHANGED notProbVars

\* prob_cubes = [vis_temp_probs(hour_cube, thresh) for thresh in threshs]
DoVisTempProbs ==
    /\ p_op = "none"
    /\ p_op' = "vis"
    /\ p_out' = [k \in 1..Len(p_threshs) |-> vis_temp_probs(p_cube, p_threshs[k])]
    /\ UNCHANGED <<p_cube, p_threshs, p_temp>>
    /\ UNCHANGED notProbVars

NextProbs ==
    \/ DoCalcProbs
    \/ DoRainProbs
    \/ DoVisTempProbs

SpecProbs == InitProbs /\ [][NextProbs]_vars

(***************************************************************************)
(* SpecAgg: probs_and_plots and vis_sfc_temp_plots over a collected list.  *)
(* Valid times are whole hours counted from start_vdt: the window's hours  *)
(* are 0..NumHours-1 and end_vdt is NumHours.  A fragment is the cube one  *)
(* derivation returned: one member's values at the valid times of one      *)
(* file.  The members of the lagged ensemble run in one batch each and the *)
(* files of a member mostly cover disjoint lead times; where two files of  *)
(* a member overlap, two fragments of a list hold the same (realization,   *)
(* valid time), the one of the earlier file first.                         *)
(***************************************************************************)
ALevels == {0}
AggVals == {0, 16}
AggReals == {1, CONTROL_REALIZATION}
AggTimes == 0..NumHours

\* the valid times of one file's fragment: one hour or two consecutive hours
AggTimeSets == {{t} : t \in AggTimes} \cup {{t, t + 1} : t \in 0..(NumHours - 1)}

AggFrags ==
    UNION {[realization : AggReals, data : [ts -> [ALevels -> AggVals]]]
           : ts \in AggTimeSets}

AggCubeLists == UNION {[1..n -> AggFrags] : n \in 0..MaxFrags}

AggSels == {"wind", "relative_humidity", "temp", "vis", "sfc_temp"}

\* the thresholds of a run: probs_and_plots' param table, main's wx_type calls
ThreshsOf_visListForSfcTemp(sel) ==
    CASE sel = "wind" -> WIND_THRESHS
      [] sel = "relative_humidity" -> REL_HUM_THRESHS
      [] sel = "temp" -> TEMP_THRESHS
      [] sel = "vis" -> VIS_THRESHS
      [] sel = "sfc_temp" -> VIS_THRESHS
      [] sel = "rain" -> RAIN_THRESHS

ThreshsOf(sel) ==
    CASE sel = "wind" -> WIND_THRESHS
      [] sel = "relative_humidity" -> REL_HUM_THRESHS
      [] sel = "temp" -> TEMP_THRESHS
      [] sel = "vis" -> VIS_THRESHS
      [] sel = "sfc_temp" -> SFC_TEMP_THRESHS
      [] sel = "rain" -> RAIN_THRESHS

\* the time slices of the list valid at vdt, in list order
RECURSIVE HourCubeList_hourAfter(_, _)
HourCubeList_hourAfter(cube_list, vdt) ==
    IF cube_list = <<>> THEN <<>>
    ELSE (IF vdt + 1 \in DOMAIN Head(cube_list).data
          THEN <<[realization |-> Head(cube_list).realization,
                  data |-> Head(cube_list).data[vdt + 1]]>>
          ELSE <<>>)
         \o HourCubeList_hourAfter(Tail(cube_list), vdt)

RECURSIVE HourCubeList(_, _)
HourCubeList(cube_list, vdt) ==
    IF cube_list = <<>> THEN <<>>
    ELSE (IF vdt \in DOMAIN Head(cube_list).data
          THEN <<[realization |-> Head(cube_list).realization,
                  data |-> Head(cube_list).data[vdt]]>>
          ELSE <<>>)
         \o HourCubeList(Tail(cube_list), vdt)

SetMax(S) == CHOOSE x \in S : \A y \in S : y <= x

\* the slices of a list that carry realization r, in list order
GroupOf(hour_cube_list, r) ==
    SelectSeq(hour_cube_list, LAMBDA c : c.realization = r)

RealizationsOf(hour_cube_list) ==
    {hour_cube_list[i].realization : i \in 1..Len(hour_cube_list)}

\* the largest number of slices of a list that share a realization
GroupDepth(hour_cube_list) ==
    SetMax({Len(GroupOf(hour_cube_list, r)) :
               r \in RealizationsOf(hour_cube_list)})

\* the merged cube of one level: the realizations in ascending order, each
\* with the slice at offset min(level, len(group) - 1) of its group
LevelCube(hour_cube_list, level) ==
    LET reals == RealizationsOf(hour_cube_list)
        rank(r) == Cardinality({q \in reals : q <= r})
    IN  [m \in 1..Cardinality(reals) |->
            LET group == GroupOf(hour_cube_list,
                                 CHOOSE r \in reals : rank(r) = m)
            IN  group[(IF level < Len(group) - 1 THEN level
                       ELSE Len(group) - 1) + 1]]

\* CubeList.merge(unique=False): no cube from an empty list, else as many
\* cubes as the deepest group of slices with one realization, each with
\* the slices along a realization dimension in ascending order
Merge_firstSliceOnly(hour_cube_list) ==
    IF hour_cube_list = <<>> THEN <<>>
    ELSE << <<hour_cube_list[1]>> >>

Merge(hour_cube_list) ==
    IF hour_cube_list = <<>> THEN <<>>
    ELSE [level \in 1..GroupDepth(hour_cube_list) |->
             LevelCube(hour_cube_list, level - 1)]

\* the probability cubes of one hour cube, one per threshold
ProbCubes_exceedanceForVis(sel, hour_cube) ==
    [k \in 1..Len(ThreshsOf(sel)) |->
        IF sel \in {"vis", "rain"}
        THEN rain_probs(hour_cube, ThreshsOf(sel)[k])
        ELSE IF sel = "sfc_temp"
             THEN vis_temp_probs(hour_cube, ThreshsOf(sel)[k])
             ELSE calc_probs(hour_cube, ThreshsOf(sel)[k], sel = "temp")]

ProbCubes(sel, hour_cube) ==
    [k \in 1..Len(ThreshsOf(sel)) |->
        IF sel \in {"vis", "sfc_temp"}
        THEN vis_temp_probs(hour_cube, ThreshsOf(sel)[k])
        ELSE IF sel = "rain"
             THEN rain_probs(hour_cube, ThreshsOf(sel)[k])
             ELSE calc_probs(hour_cube, ThreshsOf(sel)[k], sel = "temp")]

(***************************************************************************)
(* rain_plots.  Rain fragments hold five-minute rates; their valid times   *)
(* are counted in five-minute steps from start_vdt, SubsPerHour to the     *)
(* hour, and reach one hour past end_vdt (get_rains is handed              *)
(* end_vdt + 1 hour).  File j of a member holds the valid times after      *)
(* hour j up to hour j + 1, the first file also the valid time 0.  fp says *)
(* whether the cube still has its forecast_period coordinate.              *)
(***************************************************************************)
RainSlots == 0..((NumHours + 1) * SubsPerHour)

RainFileSlots(j) ==
    IF j = 0 THEN 0..SubsPerHour
    ELSE (j * SubsPerHour + 1)..((j + 1) * SubsPerHour)

\* the rates of one member: a background rate and one peak
RainSeries ==
    {[t \in RainSlots |-> IF t = p THEN v ELSE b] :
        p \in RainSlots, v \in {5, 20}, b \in {0, 1}}

RainFrag(r, j, series) ==
    [realization |-> r, fp |-> TRUE,
     data |-> [t \in RainFileSlots(j) |-> [l \in ALevels |-> series[t]]]]

\* the fragments of two members, file by file
RainFullList(s1, s2) ==
    [i \in 1..(2 * (NumHours + 1)) |->
        IF i <= NumHours + 1
        THEN RainFrag(1, i - 1, s1)
        ELSE RainFrag(CONTROL_REALIZATION, i - NumHours - 2, s2)]

\* the list without the fragments whose derivation failed
RECURSIVE KeepFrags(_, _, _)
KeepFrags(cube_list, failed, i) ==
    IF i > Len(cube_list) THEN <<>>
    ELSE (IF i \in failed THEN <<>> ELSE <<cube_list[i]>>)
         \o KeepFrags(cube_list, failed, i + 1)

\* nothing failed, one fragment failed, or one file failed for both members
RainFailures ==
    {{}} \cup {{i} : i \in 1..(2 * (NumHours + 1))}
         \cup {{j, j + NumHours + 1} : j \in 1..(NumHours + 1)}

RainCubeLists ==
    {KeepFrags(RainFullList(s1, s2), failed, 1) :
        s1 \in RainSeries, s2 \in RainSeries, failed \in RainFailures}

\* vdts: the five-minute valid times of the window
WindowSlots == 0..(NumHours * SubsPerHour - 1)

\* cube.remove_coord('forecast_period') on every cube of the list
RemoveForecastPeriod(cube_list) ==
    [i \in 1..Len(cube_list) |-> [cube_list[i] EXCEPT !.fp = FALSE]]

\* five_min_cubes[vdt]: the slices of the list valid at vdt, in list order
FiveMinCubes(cube_list, vdt) == HourCubeList(cube_list, vdt)

\* hour_cubes[hour]: the merged five-minute cubes of the hour
HourSubCubes(cube_list, hour) ==
    [i \in 1..SubsPerHour |->
        Merge(FiveMinCubes(cube_list, hour * SubsPerHour + i - 1))[1]]

\* merge_cube needs the same members in every five-minute cube of the hour
Mergeable(subs) ==
    \A i, j \in 1..Len(subs) :
        [m \in 1..Len(subs[i]) |-> subs[i][m].realization]
            = [m \in 1..Len(subs[j]) |-> subs[j][m].realization]

\* hour_cube.collapsed('time', iris.analysis.MAX)
MaxInHour_firstInHour(subs) ==
    [m \in 1..Len(subs[1]) |->
        [realization |-> subs[1][m].realization,
         data |-> [l \in ALevels |-> subs[1][m].data[l]]]]

MaxInHour(subs) ==
    [m \in 1..Len(subs[1]) |->
        [realization |-> subs[1][m].realization,
         data |-> [l \in ALevels |->
                     SetMax({subs[i][m].data[l] : i \in 1..Len(subs)})]]]

InitAgg ==
    /\ a_sel \in AggSels \cup {"rain"}
    /\ a_cubes \in (IF a_sel = "rain" THEN RainCubeLists ELSE AggCubeLists)
    /\ a_hour = 0
    /\ a_probs = [k \in 1..Len(ThreshsOf(a_sel)) |-> <<>>]
    /\ a_pc = IF a_sel = "rain" THEN "five_min" ELSE "hours"
    /\ ProbsIdle
    /\ MainIdle
    /\ BdIdle
    /\ WorkerIdle
    /\ ParIdle
    /\ DerivIdle
    /\ WindIdle
    /\ PlotIdle
    /\ FnamesIdle
    /\ HtmlIdle
    /\ WindowIdle

\* one pass of probs_and_plots' hour loop: hour_cubes[0] raises IndexError
\* when no fragment is valid for the hour
ProbsAndPlotsHour ==
    /\ a_pc = "hours"
    /\ a_sel \in {"wind", "relative_humidity", "temp"}
    /\ a_hour < NumHours
    /\ LET hour_cubes == Merge(HourCubeList(a_cubes, a_hour))
       IN  IF hour_cubes = <<>>
           THEN /\ a_pc' = "raised"
                /\ UNCHANGED <<a_hour, a_probs>>
           ELSE /\ a_probs' = [k \in DOMAIN a_probs |->
                                Append(a_probs[k],
                                       ProbCubes(a_sel, hour_cubes[1])[k])]
                /\ a_hour' = a_hour + 1
                /\ a_pc' = IF a_hour + 1 = NumHours THEN "plot" ELSE "hours"
    /\ UNCHANGED <<a_sel, a_cubes>>
    /\ UNCHANGED notAggVars

\* one pass of vis_sfc_temp_plots' hour loop: merge_cube raises on an hour
\* with no fragment (ValueError) and on an hour with two slices of one
\* realization (DuplicateDataError)
VisSfcTempHour ==
    /\ a_pc = "hours"
    /\ a_sel \in {"vis", "sfc_temp"}
    /\ a_hour < NumHours
    /\ LET hour_cubes == Merge(HourCubeList(a_cubes, a_hour))
       IN  IF Len(hour_cubes) # 1
           THEN /\ a_pc' = "raised"
                /\ UNCHANGED <<a_hour, a_probs>>
           ELSE /\ a_probs' = [k \in DOMAIN a_probs |->
                                Append(a_probs[k],
                                       ProbCubes(a_sel, hour_cubes[1])[k])]
                /\ a_hour' = a_hour + 1
                /\ a_pc' = IF a_hour + 1 = NumHours THEN "plot" ELSE "hours"
    /\ UNCHANGED <<a_sel, a_cubes>>
    /\ UNCHANGED notAggVars

\* rain_plots up to the merge of the five-minute lists: every cube of the
\* list loses its forecast_period coordinate, and merge(unique=False)[0]
\* raises IndexError for a five-minute valid time without a slice
RainFiveMin ==
    /\ a_pc = "five_min"
    /\ a_cubes' = RemoveForecastPeriod(a_cubes)
    /\ a_pc' = IF \E vdt \in WindowSlots : FiveMinCubes(a_cubes, vdt) = <<>>
              THEN "raised" ELSE "hours"
    /\ UNCHANGED <<a_sel, a_hour, a_probs>>
    /\ UNCHANGED notAggVars

\* one pass of rain_plots' loop over hour_cubes: merge_cube, the maximum
\* rate of each member in the hour and the probabilities
RainHour ==
    /\ a_pc = "hours"
    /\ a_sel = "rain"
    /\ a_hour < NumHours
    /\ LET subs == HourSubCubes(a_cubes, a_hour)
       IN  IF ~Mergeable(subs)
           THEN /\ a_pc' = "raised"
                /\ UNCHANGED <<a_hour, a_probs>>
           ELSE /\ a_probs' = [k \in DOMAIN a_probs |->
                                Append(a_probs[k],
                                       ProbCubes(a_sel, MaxInHour(subs))[k])]
                /\ a_hour' = a_hour + 1
                /\ a_pc' = IF a_hour + 1 = NumHours THEN "plot" ELSE "hours"
    /\ UNCHANGED <<a_sel, a_cubes>>
    /\ UNCHANGED notAggVars

\* merged_probs and the plots, one per threshold
AggPlot ==
    /\ a_pc = "plot"
    /\ a_pc' = "done"
    /\ UNCHANGED <<a_sel, a_cubes, a_hour, a_probs>>
    /\ UNCHANGED notAggVars

NextAgg ==
    \/ ProbsAndPlotsHour
    \/ VisSfcTempHour
    \/ RainFiveMin
    \/ RainHour
    \/ AggPlot

SpecAgg == InitAgg /\ [][NextAgg]_vars

(***************************************************************************)
(* Spec: m_uk_leeming.main.  One worker process per batch hour runs        *)
(* _mp_queue(data_from_files, ...) and puts its result on the queue; main  *)
(* takes one result per process, extends the merged collections and loops  *)
(* over the sites.                                                         *)
(***************************************************************************)
\* for hour in range(8, 2, -1)
Processes == <<8, 7, 6, 5, 4, 3>>
BatchHours == {Processes[i] : i \in 1..Len(Processes)}

\* the six collections of data_from_files and of main, in return order
VarNames == <<"wind", "temp", "sfc_temp", "rel_hum", "rain", "vis">>
Vars == {VarNames[i] : i \in 1..Len(VarNames)}
Sites == {SITE_NAMES[i] : i \in 1..Len(SITE_NAMES)}

EmptyLists == [v \in Vars |-> [name \in Sites |-> <<>>]]

\* what the HPC holds: every field, no pressure field, or no member directory
MainInputs == {"full", "no_pressure", "no_members"}

\* the tuple of dictionaries data_from_files returns for a batch hour
WorkerResult(hour, input) ==
    [v \in Vars |-> [name \in Sites |->
        IF input = "no_members" \/ (input = "no_pressure" /\ v = "rel_hum")
        THEN <<>>
        ELSE <<[hour |-> hour, var |-> v, site |-> name]>>]]

\* out_list = [queue.get() for _ in processes]
NumToCollect_oneShort == Len(Processes) - 1

NumToCollect == Len(Processes)

Init ==
    /\ new_data \in {"yes", "no"}
    /\ m_input \in MainInputs
    /\ main_pc = IF new_data = "yes" THEN "start" ELSE "unpickle"
    /\ m_started = 0
    /\ w_pc = [h \in BatchHours |-> "new"]
    /\ queue = <<>>
    /\ out_list = <<>>
    /\ cube_lists = EmptyLists
    /\ m_sites = 0
    /\ ProbsIdle
    /\ AggIdle
    /\ BdIdle
    /\ WorkerIdle
    /\ ParIdle
    /\ DerivIdle
    /\ WindIdle
    /\ PlotIdle
    /\ FnamesIdle
    /\ HtmlIdle
    /\ WindowIdle

\* for process in processes: process.start()
StartProcess ==
    /\ main_pc = "start"
    /\ m_started < Len(Processes)
    /\ w_pc' = [w_pc EXCEPT ![Processes[m_started + 1]] = "running"]
    /\ m_started' = m_started + 1
    /\ main_pc' = IF m_started + 1 = Len(Processes) THEN "collect" ELSE "start"
    /\ UNCHANGED <<new_data, m_input, queue, out_list, cube_lists, m_sites>>
    /\ UNCHANGED notMainVars

\* _mp_queue: queue.put(function(*args)) with data_from_files returning
WorkerReturn(h) ==
    /\ w_pc[h] = "running"
    /\ queue' = Append(queue, WorkerResult(h, m_input))
    /\ w_pc' = [w_pc EXCEPT ![h] = "returned"]
    /\ UNCHANGED <<new_data, m_input, main_pc, m_started, out_list, cube_lists,
                   m_sites>>
    /\ UNCHANGED notMainVars

\* _mp_queue: data_from_files raises (get_fname_strs, copy_from_hpc and
\* lat_lon_orog are called outside any try), so nothing is put
WorkerRaise(h) ==
    /\ w_pc[h] = "running"
    /\ w_pc' = [w_pc EXCEPT ![h] = "crashed"]
    /\ UNCHANGED <<new_data, m_input, main_pc, m_started, queue, out_list,
                   cube_lists, m_sites>>
    /\ UNCHANGED notMainVars

\* one queue.get() of the list comprehension; it blocks on an empty queue
QueueGet ==
    /\ main_pc = "collect"
    /\ queue # <<>>
    /\ out_list' = Append(out_list, Head(queue))
    /\ queue' = Tail(queue)
    /\ main_pc' = IF Len(out_list) + 1 >= NumToCollect THEN "close" ELSE "collect"
    /\ UNCHANGED <<new_data, m_input, m_started, w_pc, cube_lists, m_sites>>
    /\ UNCHANGED notMainVars

\* queue.close(), then the loop over "process.join": the attribute is read
\* and never called, so nothing is waited for
CloseAndJoin ==
    /\ main_pc = "close"
    /\ main_pc' = "fanin"
    /\ UNCHANGED <<new_data, m_input, m_started, w_pc, queue, out_list,
                   cube_lists, m_sites>>
    /\ UNCHANGED notMainVars

\* list.extend on one collection of one site
Extend(lists, v, name, cubes) ==
    [lists EXCEPT ![v][name] = lists[v][name] \o cubes]

\* the three loops of the fan-in body that run: wind, temp and sfc_temp of
\* one item, for every site
RECURSIVE ExtendSites(_, _, _, _)
ExtendSites(lists, v, item, i) ==
    IF i > Len(SITE_NAMES) THEN lists
    ELSE ExtendSites(Extend(lists, v, SITE_NAMES[i], item[v][SITE_NAMES[i]]),
                     v, item, i + 1)

\* the fan-in loop: the first item extends the wind, temp and sfc_temp
\* collections, then line 1184 reads the undefined name rel_hum_cube and
\* main ends with a NameError
FanIn ==
    /\ main_pc = "fanin"
    /\ out_list # <<>>
    /\ LET item == out_list[1]
           l1 == ExtendSites(cube_lists, "wind", item, 1)
           l2 == ExtendSites(l1, "temp", item, 1)
           l3 == ExtendSites(l2, "sfc_temp", item, 1)
       IN  cube_lists' = l3
    /\ main_pc' = "raised_fanin"
    /\ UNCHANGED <<new_data, m_input, m_started, w_pc, queue, out_list, m_sites>>
    /\ UNCHANGED notMainVars

\* new_data other than 'yes': the collections of an earlier run are read back
Unpickle ==
    /\ main_pc = "unpickle"
    /\ \E input \in MainInputs :
          cube_lists' = [v \in Vars |-> [name \in Sites |->
                            WorkerResult(Processes[1], input)[v][name]]]
    /\ main_pc' = "sites"
    /\ UNCHANGED <<new_data, m_input, m_started, w_pc, queue, out_list, m_sites>>
    /\ UNCHANGED notMainVars

\* the site loop: the first iteration reads the undefined name
\* wind_cube_lists (line 1215) and main ends with a NameError
SiteIteration ==
    /\ main_pc = "sites"
    /\ m_sites < Len(SITE_NAMES)
    /\ m_sites' = m_sites + 1
    /\ main_pc' = "raised_sites"
    /\ UNCHANGED <<new_data, m_input, m_started, w_pc, queue, out_list, cube_lists>>
    /\ UNCHANGED notMainVars

Next ==
    \/ StartProcess
    \/ \E h \in BatchHours : WorkerReturn(h)
    \/ \E h \in BatchHours : WorkerRaise(h)
    \/ QueueGet
    \/ CloseAndJoin
    \/ FanIn
    \/ Unpickle
    \/ SiteIteration

Spec == Init /\ [][Next]_vars

\* every started worker process runs to its end, and main, blocked in
\* queue.get(), takes an item once one is on the queue
FairSpec ==
    /\ Spec
    /\ WF_vars(StartProcess)
    /\ WF_vars(QueueGet)
    /\ \A h \in BatchHours : WF_vars(WorkerReturn(h) \/ WorkerRaise(h))

(***************************************************************************)
(* SpecBd: bd_uas_forecast.main.  For each trial site: the site selection, *)
(* get_bd_df (the Best Data file, then eight make_plot calls per selected  *)
(* site) and update_html.  Each of these works on files and other          *)
(* processes and can raise; nothing in main or get_bd_df catches.          *)
(***************************************************************************)
\* the parameters get_bd_df plots for one Best Data site, in call order
PlotParams ==
    <<"Dry Bulb Temperature", "Precipitation Rate", "Wind means", "Wind gusts",
      "Wind directions", "Relative humidity", "Visibility", "Cloud">>

InitBd ==
    /\ bd_pc = "select"
    /\ bd_i = 1
    /\ bd_n = 0
    /\ bd_k = 0
    /\ bd_plot = 0
    /\ bd_pages = {}
    /\ ProbsIdle
    /\ AggIdle
    /\ MainIdle
    /\ WorkerIdle
    /\ ParIdle
    /\ DerivIdle
    /\ WindIdle
    /\ PlotIdle
    /\ FnamesIdle
    /\ HtmlIdle
    /\ WindowIdle

\* bd_sites = uf.best_bd_site(...)
BestBdSite ==
    /\ bd_pc = "select"
    /\ \/ /\ bd_n' \in 0..MaxBdSites
          /\ bd_pc' = "read"
       \/ /\ bd_pc' = "raised"
          /\ UNCHANGED bd_n
    /\ UNCHANGED <<bd_i, bd_k, bd_plot, bd_pages>>
    /\ UNCHANGED notBdVars

\* get_bd_df up to the loop over bd_sites: copy and read the Best Data file
ReadBdFile ==
    /\ bd_pc = "read"
    /\ \/ /\ bd_pc' = IF bd_n = 0 THEN "html" ELSE "plots"
          /\ bd_k' = IF bd_n = 0 THEN 0 ELSE 1
          /\ bd_plot' = 0
       \/ /\ bd_pc' = "raised"
          /\ UNCHANGED <<bd_k, bd_plot>>
    /\ UNCHANGED <<bd_i, bd_n, bd_pages>>
    /\ UNCHANGED notBdVars

\* one make_plot call of get_bd_df's loop over bd_sites
MakePlot ==
    /\ bd_pc = "plots"
    /\ \/ IF bd_plot + 1 < Len(PlotParams)
          THEN /\ bd_plot' = bd_plot + 1
               /\ UNCHANGED <<bd_pc, bd_k>>
          ELSE /\ bd_plot' = 0
               /\ bd_k' = IF bd_k < bd_n THEN bd_k + 1 ELSE 0
               /\ bd_pc' = IF bd_k < bd_n THEN "plots" ELSE "html"
       \/ /\ bd_pc' = "raised"
          /\ UNCHANGED <<bd_k, bd_plot>>
    /\ UNCHANGED <<bd_i, bd_n, bd_pages>>
    /\ UNCHANGED notBdVars

\* update_html(bd_sites, trial_site, trial_height), then the next trial site
UpdateHtml ==
    /\ bd_pc = "html"
    /\ \/ /\ bd_pages' = bd_pages \cup {TRIAL_SITES[bd_i]}
          /\ bd_i' = bd_i + 1
          /\ bd_pc' = IF bd_i = Len(TRIAL_SITES) THEN "done" ELSE "select"
       \/ /\ bd_pc' = "raised"
          /\ UNCHANGED <<bd_i, bd_pages>>
    /\ bd_n' = 0
    /\ UNCHANGED <<bd_k, bd_plot>>
    /\ UNCHANGED notBdVars

NextBd ==
    \/ BestBdSite
    \/ ReadBdFile
    \/ MakePlot
    \/ UpdateHtml

SpecBd == InitBd /\ [][NextBd]_vars

(***************************************************************************)
(* SpecPlot: the make_plot calls of get_bd_df and the list objects they    *)
(* touch.  A call is handed a list object: a fresh copy of a module-level  *)
(* table, the table itself, or make_plot's default value; what make_plot   *)
(* appends lands in that object.  Rain thresholds are in hundredths of     *)
(* mm/hr.                                                                  *)
(***************************************************************************)
ThresholdTables ==
    [TEMP_THRESHOLDS |-> <<0, 25, 30>>,
     MEAN_THRESHOLDS |-> <<12, 16>>,
     GUST_THRESHOLDS |-> <<15, 20>>,
     REL_HUM_THRESHOLDS |-> <<40, 95>>,
     VIS_THRESHOLDS |-> <<1000, 200>>,
     RAIN_THRESHOLDS |-> <<1, 20>>]

\* make_plot's default: thresholds=[None, None, None]
DefaultThresholds == <<"None", "None", "None">>

\* ax.get_ylim(): the lower and the upper y-axis limit of a plot
YLims == {<<lo, hi>> : lo \in {-5, 0}, hi \in {8, 30, 100, 2000}}

\* the thresholds argument of get_bd_df's make_plot call for a parameter:
\* a copy of a table, or nothing (the default value is used)
ThresholdsArg_noCopy(param) ==
    CASE param = "Dry Bulb Temperature" -> [obj |-> "table", of |-> "TEMP_THRESHOLDS"]
      [] param = "Precipitation Rate" -> [obj |-> "table", of |-> "RAIN_THRESHOLDS"]
      [] param = "Wind means" -> [obj |-> "table", of |-> "MEAN_THRESHOLDS"]
      [] param = "Wind gusts" -> [obj |-> "table", of |-> "GUST_THRESHOLDS"]
      [] param = "Relative humidity" -> [obj |-> "table", of |-> "REL_HUM_THRESHOLDS"]
      [] param = "Visibility" -> [obj |-> "table", of |-> "VIS_THRESHOLDS"]
      [] OTHER -> [obj |-> "default", of |-> "none"]

ThresholdsArg(param) ==
    CASE param = "Dry Bulb Temperature" -> [obj |-> "copy", of |-> "TEMP_THRESHOLDS"]
      [] param = "Precipitation Rate" -> [obj |-> "copy", of |-> "RAIN_THRESHOLDS"]
      [] param = "Wind means" -> [obj |-> "copy", of |-> "MEAN_THRESHOLDS"]
      [] param = "Wind gusts" -> [obj |-> "copy", of |-> "GUST_THRESHOLDS"]
      [] param = "Relative humidity" -> [obj |-> "copy", of |-> "REL_HUM_THRESHOLDS"]
      [] param = "Visibility" -> [obj |-> "copy", of |-> "VIS_THRESHOLDS"]
      [] OTHER -> [obj |-> "default", of |-> "none"]

\* the list make_plot leaves in the object it was handed
Shaded(param, thresholds, ylims) ==
    IF param = "Cloud" \/ param = "Wind directions" THEN thresholds
    ELSE IF param = "Visibility" THEN Append(thresholds, ylims[1])
         ELSE Append(thresholds, ylims[2])

InitPlot ==
    /\ pl_pc = "plots"
    /\ pl_n \in 1..MaxPlotSites
    /\ pl_k = 0
    /\ pl_tables = ThresholdTables
    /\ pl_default = DefaultThresholds
    /\ pl_passed = <<>>
    /\ pl_after = <<>>
    /\ ProbsIdle
    /\ AggIdle
    /\ MainIdle
    /\ BdIdle
    /\ WorkerIdle
    /\ ParIdle
    /\ DerivIdle
    /\ WindIdle
    /\ FnamesIdle
    /\ HtmlIdle
    /\ WindowIdle

\* one make_plot call of get_bd_df's loop over bd_sites
PlotCall ==
    /\ pl_pc = "plots"
    /\ \E ylims \in YLims :
          LET param == PlotParams[(pl_k % Len(PlotParams)) + 1]
              arg == ThresholdsArg(param)
              passed == IF arg.obj = "default" THEN pl_default
                        ELSE pl_tables[arg.of]
              after == Shaded(param, passed, ylims)
          IN  /\ pl_passed' = passed
              /\ pl_after' = after
              /\ pl_default' = IF arg.obj = "default" THEN after
                               ELSE pl_default
              /\ pl_tables' = IF arg.obj = "table"
                              THEN [pl_tables EXCEPT ![arg.of] = after]
                              ELSE pl_tables
    /\ pl_k' = pl_k + 1
    /\ pl_pc' = IF pl_k + 1 = pl_n * Len(PlotParams) THEN "done" ELSE "plots"
    /\ UNCHANGED pl_n
    /\ UNCHANGED notPlotVars

NextPlot == PlotCall

SpecPlot == InitPlot /\ [][NextPlot]_vars

(***************************************************************************)
(* SpecWorker: data_from_files for one batch hour.  The copies from the    *)
(* HPC may leave a scratch file absent, a copied file may lack a field and *)
(* a derivation may raise for a site; at most MaxFaults of these happen in *)
(* one run.  A fragment is named by its member and file number; the        *)
(* dictionary and list it is appended to give its variable and site.       *)
(***************************************************************************)
\* the STASH fields the derivations load
Fields == {"U", "V", "TEMP_1P5", "TEMP_SFC", "TEMP", "SPEC_HUM", "PRES",
           "RAIN", "VIS"}

\* the fields each derivation loads (iris.load_cube raises without them)
FieldsOf(v) ==
    CASE v = "wind" -> {"U", "V"}
      [] v = "temp" -> {"TEMP_1P5", "TEMP"}
      [] v = "sfc_temp" -> {"TEMP_SFC"}
      [] v = "rel_hum" -> {"SPEC_HUM", "TEMP", "PRES"}
      [] v = "rain" -> {"RAIN"}
      [] v = "vis" -> {"VIS"}

\* a derivation of the site body raises
Fails(v, missing, failing) == FieldsOf(v) \cap missing # {} \/ v \in failing

\* if (os.path.exists(scratch_s) and os.path.exists(scratch_m) and orog_cube)
FilesPresent_surfaceOnly(s_ok, m_ok, orog) == s_ok

FilesPresent(s_ok, m_ok, orog) == s_ok /\ m_ok /\ orog = "ok"

\* the six try blocks of the site body, run in turn from block i: a block
\* that raises appends nothing and the next block runs
RECURSIVE SiteBody_oneTry(_, _, _, _, _, _)
SiteBody_oneTry(cubes, i, name, frag, missing, failing) ==
    IF i > Len(VarNames) THEN cubes
    ELSE IF Fails(VarNames[i], missing, failing) THEN cubes
         ELSE SiteBody_oneTry(Extend(cubes, VarNames[i], name, <<frag>>),
                              i + 1, name, frag, missing, failing)

RECURSIVE SiteBody(_, _, _, _, _, _)
SiteBody(cubes, i, name, frag, missing, failing) ==
    IF i > Len(VarNames) THEN cubes
    ELSE SiteBody(IF Fails(VarNames[i], missing, failing) THEN cubes
                  ELSE Extend(cubes, VarNames[i], name, <<frag>>),
                  i + 1, name, frag, missing, failing)

NoFiles == [s_ok |-> FALSE, m_ok |-> FALSE, missing |-> {}]

\* what one copied file lacks and what raises at one site: nothing or one thing
AtMostOne(S) == {{}} \cup {{x} : x \in S}

InitWorker ==
    /\ d_pc = "begin"
    /\ d_members \in 0..MaxMemberStrs
    /\ d_nf \in 0..MaxFNums
    /\ d_zero \in BOOLEAN
    /\ d_nf = 0 => d_zero = FALSE
    /\ d_member = 1
    /\ d_fnum = 1
    /\ d_site = 1
    /\ d_files = NoFiles
    /\ d_cubes = EmptyLists
    /\ d_hist = <<>>
    /\ d_faults = 0
    /\ d_scratch = {}
    /\ ProbsIdle
    /\ AggIdle
    /\ MainIdle
    /\ BdIdle
    /\ ParIdle
    /\ DerivIdle
    /\ WindIdle
    /\ PlotIdle
    /\ FnamesIdle
    /\ HtmlIdle
    /\ WindowIdle

\* the empty dictionaries, get_fname_strs and the entry to the member loop
DataFromFilesBegin ==
    /\ d_pc = "begin"
    /\ d_pc' = IF d_members = 0 \/ d_nf = 0 THEN "returned" ELSE "copy"
    /\ UNCHANGED <<d_members, d_nf, d_zero, d_member, d_fnum, d_site, d_files,
                   d_cubes, d_hist, d_faults, d_scratch>>
    /\ UNCHANGED notWorkerVars

\* scratch_fname = f'{SCRATCH_DIR}/{fname}_{hour}_{member_str}': within one
\* call a scratch path is named by the file's letter ('d' surface, 'e' model
\* levels), its file number (0 for '000') and the member
WorkerScratchFname(letter, f_num, member) ==
    [letter |-> letter,
     f_num |-> IF d_zero THEN f_num - 1 ELSE f_num,
     member |-> member]

\* scratch_fname = f'{SCRATCH_DIR}/enukaa_pd000_{hour}_{member_str}'
WorkerOrogFname(member) == [letter |-> "d", f_num |-> 0, member |-> member]

\* copy_from_hpc for the current member and file number: either scp may
\* leave its scratch file absent, and a copied file may lack fields
CopyFromHpc ==
    /\ d_pc = "copy"
    /\ \E s_ok, m_ok \in BOOLEAN : \E missing \in AtMostOne(Fields) :
          LET cost == (IF s_ok THEN 0 ELSE 1) + (IF m_ok THEN 0 ELSE 1)
                      + Cardinality(missing)
          IN  /\ d_faults + cost <= MaxFaults
              /\ (~s_ok \/ ~m_ok) => missing = {}
              /\ d_files' = [s_ok |-> s_ok, m_ok |-> m_ok, missing |-> missing]
              /\ d_faults' = d_faults + cost
              /\ d_scratch' = d_scratch
                     \cup (IF s_ok THEN {WorkerScratchFname("d", d_fnum, d_member)}
                           ELSE {})
                     \cup (IF m_ok THEN {WorkerScratchFname("e", d_fnum, d_member)}
                           ELSE {})
    /\ d_site' = 1
    /\ d_pc' = "site"
    /\ UNCHANGED <<d_members, d_nf, d_zero, d_member, d_fnum, d_cubes, d_hist>>
    /\ UNCHANGED notWorkerVars

\* the surface scratch file of file number '000' has the path lat_lon_orog
\* copies the orography file to and removes once the orography is loaded
SharesOrogPath == d_zero /\ d_fnum = 1

\* one pass of the site loop: lat_lon_orog (the orography file copied, absent
\* or unreadable), then the six derivations if every file is there
SiteStep ==
    /\ d_pc = "site"
    /\ d_site <= Len(SITE_NAMES)
    /\ \E orog \in {"ok", "absent", "raise"} : \E failing \in AtMostOne(Vars) :
          LET cost == (IF orog = "ok" THEN 0 ELSE 1) + Cardinality(failing)
              frag == [member |-> d_member, f_num |-> d_fnum]
              name == SITE_NAMES[d_site]
              s_ok == d_files.s_ok /\ ~SharesOrogPath
              entry == [member |-> d_member, f_num |-> d_fnum, site |-> name,
                        s_ok |-> s_ok, m_ok |-> d_files.m_ok,
                        orog |-> orog, missing |-> d_files.missing,
                        failing |-> failing]
          IN  /\ d_faults + cost <= MaxFaults
              /\ (SharesOrogPath /\ d_files.s_ok) => orog # "absent"
              /\ ~FilesPresent(s_ok, d_files.m_ok, orog) => failing = {}
              /\ d_faults' = d_faults + cost
              /\ d_hist' = Append(d_hist, entry)
              /\ d_scratch' =
                    CASE orog = "ok" -> d_scratch \ {WorkerOrogFname(d_member)}
                      [] orog = "raise" -> d_scratch \cup {WorkerOrogFname(d_member)}
                      [] orog = "absent" -> d_scratch
              /\ IF orog = "raise"
                 THEN /\ d_pc' = "raised"
                      /\ UNCHANGED <<d_cubes, d_site, d_files>>
                 ELSE /\ d_cubes' =
                            IF FilesPresent(s_ok, d_files.m_ok, orog)
                            THEN SiteBody(d_cubes, 1, name, frag,
                                          d_files.missing, failing)
                            ELSE d_cubes
                      /\ d_files' = [d_files EXCEPT !.s_ok = s_ok]
                      /\ d_site' = d_site + 1
                      /\ d_pc' = IF d_site = Len(SITE_NAMES) THEN "remove" ELSE "site"
    /\ UNCHANGED <<d_members, d_nf, d_zero, d_member, d_fnum>>
    /\ UNCHANGED notWorkerVars

\* if os.path.exists(scratch_s): rm scratch_s; the same for scratch_m
RemoveFiles_surfaceOnly(scratch, scratch_s, scratch_m) == scratch \ {scratch_s}

RemoveFiles(scratch, scratch_s, scratch_m) == scratch \ {scratch_s, scratch_m}

\* the scratch files are removed if they exist; then the next file number,
\* the next member, or the return of the six dictionaries
RemoveScratch ==
    /\ d_pc = "remove"
    /\ d_files' = NoFiles
    /\ d_scratch' = RemoveFiles(d_scratch, WorkerScratchFname("d", d_fnum, d_member),
                                WorkerScratchFname("e", d_fnum, d_member))
    /\ IF d_fnum < d_nf
       THEN /\ d_fnum' = d_fnum + 1
            /\ UNCHANGED d_member
            /\ d_pc' = "copy"
       ELSE IF d_member < d_members
            THEN /\ d_member' = d_member + 1
                 /\ d_fnum' = 1
                 /\ d_pc' = "copy"
            ELSE /\ d_pc' = "returned"
                 /\ UNCHANGED <<d_member, d_fnum>>
    /\ UNCHANGED <<d_members, d_nf, d_zero, d_site, d_cubes, d_hist, d_faults>>
    /\ UNCHANGED notWorkerVars

NextWorker ==
    \/ DataFromFilesBegin
    \/ CopyFromHpc
    \/ SiteStep
    \/ RemoveScratch

SpecWorker == InitWorker /\ [][NextWorker]_vars

(***************************************************************************)
(* SpecPar: the data_from_files calls of ParWorkers worker processes run   *)
(* side by side.  Every call creates its six dictionaries of lists, then   *)
(* for each member and file number copies the two files to the scratch     *)
(* directory, for each site copies and removes the orography file and      *)
(* appends to its lists, and removes the two scratch files; _mp_queue puts *)
(* the result on the queue.  A target is a list (named by the call that    *)
(* created it, its variable and its site), a scratch path (named by the    *)
(* parts of the file name) or the queue.                                   *)
(***************************************************************************)
ParHours == {Processes[i] : i \in 1..ParWorkers}

\* FNAME_NUMS: the file numbers, '000' first, three hours apart
ParFNameNum(k) == 3 * (k - 1)

\* wind_cubes[name] and the five other lists of a call for one site
ListsOf(hour, name) ==
    {[kind |-> "list", name |-> v, site |-> name, f_num |-> 0, hour |-> hour,
      member |-> 0] : v \in Vars}

\* scratch_fname = f'{SCRATCH_DIR}/{fname}_{hour}_{member_str}' with
\* fname = 'enukaa_p{}{}'.format(letter, f_num)
ScratchFname_noHour(letter, f_num, hour, member_str) ==
    [kind |-> "file", name |-> letter, site |-> "", f_num |-> f_num,
     hour |-> 0, member |-> member_str]

ScratchFname(letter, f_num, hour, member_str) ==
    [kind |-> "file", name |-> letter, site |-> "", f_num |-> f_num,
     hour |-> hour, member |-> member_str]

\* scratch_fname = f'{SCRATCH_DIR}/enukaa_pd000_{hour}_{member_str}'
OrogScratchFname(hour, member_str) ==
    [kind |-> "file", name |-> "d", site |-> "", f_num |-> 0,
     hour |-> hour, member |-> member_str]

TheQueue ==
    [kind |-> "queue", name |-> "", site |-> "", f_num |-> 0, hour |-> 0,
     member |-> 0]

\* the site loop for one member and file number: lat_lon_orog, then the six
\* appends of the site body
ParSiteOps(hour, member_str) ==
    [i \in 1..(2 * Len(SITE_NAMES)) |->
        IF i % 2 = 1
        THEN [op |-> "lat_lon_orog",
              targets |-> {OrogScratchFname(hour, member_str)}]
        ELSE [op |-> "append", targets |-> ListsOf(hour, SITE_NAMES[i \div 2])]]

\* copy_from_hpc, the site loop and the removal of the two scratch files
ParFileOps(hour, member_str, f_num) ==
    LET scratch == {ScratchFname("d", f_num, hour, member_str),
                    ScratchFname("e", f_num, hour, member_str)}
    IN  <<[op |-> "copy_from_hpc", targets |-> scratch]>>
        \o ParSiteOps(hour, member_str)
        \o <<[op |-> "remove", targets |-> scratch]>>

\* the operations of the member loop from member m, file number index k on
RECURSIVE ParLoopOps(_, _, _)
ParLoopOps(hour, m, k) ==
    IF m > ParMembers THEN <<>>
    ELSE IF k > ParFNums THEN ParLoopOps(hour, m + 1, 1)
         ELSE ParFileOps(hour, m, ParFNameNum(k)) \o ParLoopOps(hour, m, k + 1)

\* _mp_queue(data_from_files, [start_vdt, end_vdt, hour, now_hour, hall], queue)
WorkerOps(hour) ==
    <<[op |-> "create",
       targets |-> UNION {ListsOf(hour, name) : name \in Sites}]>>
    \o ParLoopOps(hour, 1, 1)
    \o <<[op |-> "put", targets |-> {TheQueue}]>>

InitPar ==
    /\ par_pc = [h \in ParHours |-> 0]
    /\ par_created = {}
    /\ par_writes = {}
    /\ ProbsIdle
    /\ AggIdle
    /\ MainIdle
    /\ BdIdle
    /\ WorkerIdle
    /\ DerivIdle
    /\ WindIdle
    /\ PlotIdle
    /\ FnamesIdle
    /\ HtmlIdle
    /\ WindowIdle

\* the worker of one batch hour does the next operation of its call
ParStep(h) ==
    /\ par_pc[h] < Len(WorkerOps(h))
    /\ LET o == WorkerOps(h)[par_pc[h] + 1]
           done == {<<t, h>> : t \in o.targets}
       IN  IF o.op = "create"
           THEN /\ par_created' = par_created \cup done
                /\ UNCHANGED par_writes
           ELSE /\ par_writes' = par_writes \cup done
                /\ UNCHANGED par_created
    /\ par_pc' = [par_pc EXCEPT ![h] = @ + 1]
    /\ UNCHANGED notParVars

NextPar == \E h \in ParHours : ParStep(h)

SpecPar == InitPar /\ [][NextPar]_vars

(***************************************************************************)
(* SpecDeriv: one derivation called by data_from_files on the cube of one  *)
(* file.  Valid times are whole hours counted from start_vdt, so the       *)
(* window data_from_files works on is start_vdt = 0, end_vdt = NumHours.   *)
(* The cube's realization coordinate is the set of its points: empty for   *)
(* the control run, which has none.  Values are kept as loaded, the unit   *)
(* a library conversion leaves is kept as the cube's units; a relative     *)
(* humidity is kept exact as the fraction num / den.                       *)
(***************************************************************************)
start_vdt == 0
end_vdt == NumHours

DerivTimes == -1..(NumHours + 2)

\* the valid times of one file: consecutive lead times
FileTimes == {a..b : a \in DerivTimes, b \in DerivTimes} \ {{}}

DerivVals == {0, 1}

\* the vapour pressure and the saturated vapour pressure (hPa) that lines
\* 1077-1081 compute for one grid point: negative humidity, half saturated,
\* supersaturated
RhCases ==
    {[vap_pres |-> -1, sat_vap_pres |-> 12],
     [vap_pres |-> 6, sat_vap_pres |-> 12],
     [vap_pres |-> 19, sat_vap_pres |-> 12]}

FileCubes(kind) ==
    UNION {[realization : {{}, {1}, {2}},
            data : [ts -> IF kind = "rel_hum" THEN RhCases ELSE DerivVals]]
           : ts \in FileTimes}

\* the end of the window data_from_files hands to the derivation
PassedEnd(kind) == IF kind = "rain" THEN end_vdt + 1 ELSE end_vdt

\* if start_vdt <= vdt <= end_vdt: cube_list.append(cube[ind])
InWindow_halfOpen(cube, first, last) ==
    {vdt \in DOMAIN cube.data : first <= vdt /\ vdt < last}

InWindow(cube, first, last) ==
    {vdt \in DOMAIN cube.data : first <= vdt /\ vdt <= last}

\* try: new_cube.coord('realization') except: add the coordinate 100
AddRealization_always(realization) == {CONTROL_REALIZATION}

AddRealization(realization) ==
    IF realization = {} THEN {CONTROL_REALIZATION} ELSE realization

\* the filter on valid times, merge_cube and the realization coordinate
\* shared by update_cube, get_sfc_temps, get_rains and get_vis; the cube is
\* only there when merge_cube had a slice to merge
WindowCube(cube, first, last, units) ==
    [realization |-> AddRealization(cube.realization),
     units |-> units,
     data |-> [vdt \in InWindow(cube, first, last) |-> cube.data[vdt]]]

\* rel_hum = 100.0 * vap_pres / sat_vap_pres
spec_hum_to_rel_hum(c) == [num |-> 100 * c.vap_pres, den |-> c.sat_vap_pres]

\* what the derivation of a variable returns for the window handed to it
Derived(kind, cube, first, last) ==
    CASE kind = "wind" -> WindowCube(cube, first, last, "knots")
      [] kind = "temp" -> WindowCube(cube, first, last, "celsius")
      [] kind = "sfc_temp" -> WindowCube(cube, first, last, "celsius")
      [] kind = "vis" -> WindowCube(cube, first, last, "m")
      [] kind = "rain" ->
            LET c == WindowCube(cube, first, last, "mm hr-1")
            IN  [c EXCEPT !.data = [vdt \in DOMAIN c.data |-> c.data[vdt] * 3600]]
      [] kind = "rel_hum" ->
            LET c == WindowCube(cube, first, last, "1")
            IN  [c EXCEPT !.data =
                    [vdt \in DOMAIN c.data |-> spec_hum_to_rel_hum(c.data[vdt])]]

InitDeriv ==
    /\ dv_kind \in Vars
    /\ dv_cube \in FileCubes(dv_kind)
    /\ dv_out = <<>>
    /\ dv_pc = "call"
    /\ ProbsIdle
    /\ AggIdle
    /\ MainIdle
    /\ BdIdle
    /\ WorkerIdle
    /\ ParIdle
    /\ WindIdle
    /\ PlotIdle
    /\ FnamesIdle
    /\ HtmlIdle
    /\ WindowIdle

\* one try block of data_from_files: the derivation returns its cube, or
\* merge_cube raises on an empty list and the except branch prints
Derive(kind) ==
    /\ dv_pc = "call"
    /\ dv_kind = kind
    /\ IF InWindow(dv_cube, start_vdt, PassedEnd(kind)) = {}
       THEN /\ dv_pc' = "failed"
            /\ UNCHANGED dv_out
       ELSE /\ dv_pc' = "returned"
            /\ dv_out' = Derived(kind, dv_cube, start_vdt, PassedEnd(kind))
    /\ UNCHANGED <<dv_kind, dv_cube>>
    /\ UNCHANGED notDerivVars

GetWindSpd == Derive("wind")
GetTemps == Derive("temp")
GetSfcTemps == Derive("sfc_temp")
GetRelHums == Derive("rel_hum")
GetRains == Derive("rain")
GetVis == Derive("vis")

NextDeriv ==
    \/ GetWindSpd
    \/ GetTemps
    \/ GetSfcTemps
    \/ GetRelHums
    \/ GetRains
    \/ GetVis

SpecDeriv == InitDeriv /\ [][NextDeriv]_vars

(***************************************************************************)
(* SpecWind: get_wind_spd step by step.  A component cube is its value, an *)
(* exact fraction, and its units; the wind speed cube holds the square of  *)
(* its value, so that (u ** 2 + v ** 2) ** 0.5 stays exact.                *)
(***************************************************************************)
WindComps == (0 - MaxWind)..MaxWind

\* one metre per second is 3600/1852 knots
KnotsPerMs == [num |-> 900, den |-> 463]

\* cube.convert_units('knots') on a cube in m s-1
ConvertUnits(cube, c_units) ==
    IF cube.units = c_units THEN cube
    ELSE [val |-> [num |-> cube.val.num * KnotsPerMs.num,
                   den |-> cube.val.den * KnotsPerMs.den],
          units |-> c_units]

\* update_cube's units step: convert when c_units is given
UpdateCubeUnits_noConversion(cube, c_units) == cube

UpdateCubeUnits(cube, c_units) ==
    IF c_units # "" THEN ConvertUnits(cube, c_units) ELSE cube

\* (u_cube.data ** 2 + v_cube.data ** 2) ** 0.5 in a copy of u_cube
WindSpd(u_cube, v_cube) ==
    [sq |-> IF u_cube.val.den = v_cube.val.den
            THEN [num |-> u_cube.val.num * u_cube.val.num
                              + v_cube.val.num * v_cube.val.num,
                  den |-> u_cube.val.den * u_cube.val.den]
            ELSE [num |-> u_cube.val.num * u_cube.val.num
                              * v_cube.val.den * v_cube.val.den
                          + v_cube.val.num * v_cube.val.num
                              * u_cube.val.den * u_cube.val.den,
                  den |-> u_cube.val.den * u_cube.val.den
                              * v_cube.val.den * v_cube.val.den],
     units |-> u_cube.units]

InitWind ==
    /\ ws_pc = "load"
    /\ ws_in \in [u : WindComps, v : WindComps]
    /\ ws_u = <<>>
    /\ ws_v = <<>>
    /\ ws_out = <<>>
    /\ ProbsIdle
    /\ AggIdle
    /\ MainIdle
    /\ BdIdle
    /\ WorkerIdle
    /\ ParIdle
    /\ DerivIdle
    /\ PlotIdle
    /\ FnamesIdle
    /\ HtmlIdle
    /\ WindowIdle

\* iris.load_cube for U_CON and V_CON
LoadWindCubes ==
    /\ ws_pc = "load"
    /\ ws_u' = [val |-> [num |-> ws_in.u, den |-> 1], units |-> "m s-1"]
    /\ ws_v' = [val |-> [num |-> ws_in.v, den |-> 1], units |-> "m s-1"]
    /\ ws_pc' = "loaded"
    /\ UNCHANGED <<ws_in, ws_out>>
    /\ UNCHANGED notWindVars

\* u_cube = update_cube(u_cube, ..., 'knots')
UpdateU ==
    /\ ws_pc = "loaded"
    /\ ws_u' = UpdateCubeUnits(ws_u, "knots")
    /\ ws_pc' = "u_updated"
    /\ UNCHANGED <<ws_in, ws_v, ws_out>>
    /\ UNCHANGED notWindVars

\* v_cube = update_cube(v_cube, ..., 'knots')
UpdateV ==
    /\ ws_pc = "u_updated"
    /\ ws_v' = UpdateCubeUnits(ws_v, "knots")
    /\ ws_pc' = "v_updated"
    /\ UNCHANGED <<ws_in, ws_u, ws_out>>
    /\ UNCHANGED notWindVars

\* wind_spd and wind_spd_cube
CombineWind ==
    /\ ws_pc = "v_updated"
    /\ ws_out' = WindSpd(ws_u, ws_v)
    /\ ws_pc' = "combined"
    /\ UNCHANGED <<ws_in, ws_u, ws_v>>
    /\ UNCHANGED notWindVars

NextWind ==
    \/ LoadWindCubes
    \/ UpdateU
    \/ UpdateV
    \/ CombineWind

SpecWind == InitWind /\ [][NextWind]_vars

(***************************************************************************)
(* SpecFnames: get_fname_strs.  Times are whole hours; the file numbers    *)
(* are the first NumFNames of FNAME_NUMS.  The directory listing is the    *)
(* sequence of pieces str(out).split('enuk_um_') gives.                    *)
(***************************************************************************)
FNAME_NUMS == [k \in 1..NumFNames |-> 3 * (k - 1)]

\* the pieces of a listing: the text before the first member directory,
\* then one piece per member directory
Listings == {<<"b'">>, <<"b'", "000">>, <<"b'", "000", "001">>}

\* string[:3].isnumeric()
IsMemberStr(string) == string \in {"000", "001"}

\* the lead times held by the file of a number: three hours after the
\* number, the file 000 also T+0
lead_adds_noZeroLead(num) == <<num + 1, num + 2, num + 3>>

lead_adds(num) ==
    IF num = 0 THEN <<num, num + 1, num + 2, num + 3>>
    ELSE <<num + 1, num + 2, num + 3>>

\* the loop over FNAME_NUMS from index k on: a number is appended at the
\* first of its lead times whose valid time lies in the window
RECURSIVE f_nums(_, _, _, _)
f_nums(k, m_date, first, last) ==
    IF k > Len(FNAME_NUMS) THEN <<>>
    ELSE (IF \E i \in DOMAIN lead_adds(FNAME_NUMS[k]) :
                /\ first <= m_date + lead_adds(FNAME_NUMS[k])[i]
                /\ m_date + lead_adds(FNAME_NUMS[k])[i] <= last
          THEN <<FNAME_NUMS[k]>> ELSE <<>>)
         \o f_nums(k + 1, m_date, first, last)

InitFnames ==
    /\ fn_pc = "call"
    /\ fn_in \in [m_date : (0 - FnSpan)..0, start_vdt : 0..FnSpan,
                   end_vdt : 0..FnSpan, listing : Listings]
    /\ fn_out = <<>>
    /\ ProbsIdle
    /\ AggIdle
    /\ MainIdle
    /\ BdIdle
    /\ WorkerIdle
    /\ ParIdle
    /\ DerivIdle
    /\ WindIdle
    /\ PlotIdle
    /\ HtmlIdle
    /\ WindowIdle

GetFnameStrs ==
    /\ fn_pc = "call"
    /\ fn_out' = [member_strs |-> SelectSeq(fn_in.listing, IsMemberStr),
                  f_nums |-> f_nums(1, fn_in.m_date, fn_in.start_vdt,
                                    fn_in.end_vdt)]
    /\ fn_pc' = "returned"
    /\ UNCHANGED fn_in
    /\ UNCHANGED notFnamesVars

NextFnames == GetFnameStrs

SpecFnames == InitFnames /\ [][NextFnames]_vars

(***************************************************************************)
(* SpecHtml: update_html on the page of one site, run after run.  Times    *)
(* are whole hours.  The page is kept as first_lines, the lines before its *)
(* last 17: text lines, the 'select id' line that opens the date dropdown  *)
(* and one option line per date, and as the date its image lines show.     *)
(* The template (mog_template.shtml) is not part of the repository: it is  *)
(* taken to end its dropdown with the one option line for DATE, marked     *)
(* selected, laid out like the option lines update_html appends.           *)
(***************************************************************************)
\* the hours between one run of main and the next
HtmlSteps == {0, 1, 164, 165}

TextLine == [kind |-> "text", date |-> 0, selected |-> FALSE]

SelectIdLine == [kind |-> "select id", date |-> 0, selected |-> FALSE]

OptionLine(date, selected) ==
    [kind |-> "option", date |-> date, selected |-> selected]

\* line.replace(' selected="selected"', '')
ReplaceSelected(line) == [line EXCEPT !.selected = FALSE]

\* line[39:49].isnumeric(): the ten digits of the date start at column 39
\* of an option line that has no selected attribute
DateIsAt39(line) == line.kind = "option" /\ ~line.selected

\* (datetime.utcnow() - vdt).days
DaysBetween(now, vdt) == (now - vdt) \div 24

\* first_lines.remove(line): the list without its first line equal to line
RECURSIVE RemoveLine(_, _)
RemoveLine(lines, line) ==
    IF lines = <<>> THEN <<>>
    ELSE IF Head(lines) = line THEN Tail(lines)
         ELSE <<Head(lines)>> \o RemoveLine(Tail(lines), line)

\* remove if more than one week old
RemoveOld_keepWeekOld(now, vdt) == DaysBetween(now, vdt) > 7

RemoveOld(now, vdt) == DaysBetween(now, vdt) >= 7

\* the loop over reversed(first_lines) from index i down: the lines left
\* and the dates whose images were globbed, archived and removed
RECURSIVE Sweep(_, _, _, _)
Sweep(lines, i, now, globbed) ==
    IF i < 1 \/ i > Len(lines) THEN [lines |-> lines, globbed |-> globbed]
    ELSE IF lines[i].kind = "select id"
         THEN [lines |-> lines, globbed |-> globbed]
         ELSE IF DateIsAt39(lines[i]) /\ RemoveOld(now, lines[i].date)
              THEN Sweep(RemoveLine(lines, lines[i]), i - 1, now,
                         globbed \cup {lines[i].date})
              ELSE Sweep(lines, i - 1, now, globbed)

\* the page made from the template
NewPage(date) ==
    [first_lines |-> <<TextLine, SelectIdLine, OptionLine(date, TRUE)>>,
     shown |-> date]

\* the existing page with the new option, before the old ones are removed
Appended(page, date) ==
    Append([page.first_lines EXCEPT ![Len(page.first_lines)] =
                ReplaceSelected(page.first_lines[Len(page.first_lines)])],
           OptionLine(date, TRUE))

InitHtml ==
    /\ h_pc = "plots"
    /\ h_now = 0
    /\ h_date = 0
    /\ h_page = <<>>
    /\ h_imgs = {}
    /\ h_mass = {}
    /\ h_calls = 0
    /\ ProbsIdle
    /\ AggIdle
    /\ MainIdle
    /\ BdIdle
    /\ WorkerIdle
    /\ ParIdle
    /\ DerivIdle
    /\ WindIdle
    /\ PlotIdle
    /\ FnamesIdle
    /\ WindowIdle

\* a run of main some hours after the last one, up to update_html: the
\* issue time is three hours back and the plots of the site are saved
\* under it
SavePlots ==
    /\ h_pc = "plots"
    /\ h_calls < MaxHtmlCalls
    /\ \E step \in HtmlSteps :
          /\ h_now' = h_now + step
          /\ h_date' = h_now + step - 3
          /\ h_imgs' = h_imgs \cup {h_now + step - 3}
    /\ h_pc' = "html"
    /\ UNCHANGED <<h_page, h_mass, h_calls>>
    /\ UNCHANGED notHtmlVars

\* update_html(date_str, ...)
UpdateHtmlPage ==
    /\ h_pc = "html"
    /\ IF h_page = <<>>
       THEN /\ h_page' = NewPage(h_date)
            /\ UNCHANGED <<h_imgs, h_mass>>
       ELSE LET first_lines == Appended(h_page, h_date)
                swept == Sweep(first_lines, Len(first_lines), h_now, {})
            IN  /\ h_page' = [first_lines |-> swept.lines, shown |-> h_date]
                /\ h_mass' = h_mass \cup (h_imgs \cap swept.globbed)
                /\ h_imgs' = h_imgs \ swept.globbed
    /\ h_calls' = h_calls + 1
    /\ h_pc' = "plots"
    /\ UNCHANGED <<h_now, h_date>>
    /\ UNCHANGED notHtmlVars

NextHtml ==
    \/ SavePlots
    \/ UpdateHtmlPage

SpecHtml == InitHtml /\ [][NextHtml]_vars

(***************************************************************************)
(* SpecWindow: the forecast window main chooses.  Times are whole hours    *)
(* counted from FIRST_DT, the start of the trial, which the module sets    *)
(* when it is loaded or which is set by hand for a trial; main may run any *)
(* number of hours after it.                                               *)
(***************************************************************************)
FIRST_DT == 0

LAST_DT == FIRST_DT + 48

fcast_period == (LAST_DT - FIRST_DT) - 1

\* start_vdt and end_vdt for a current hour
Window_noFirstFloor(now_hour) ==
    LET rec_m_date == now_hour - 3
        latest_lead_vdt == now_hour - 8 + 126
    IN  IF latest_lead_vdt <= LAST_DT
        THEN [start_vdt |-> latest_lead_vdt - fcast_period,
              end_vdt |-> latest_lead_vdt]
        ELSE [start_vdt |-> rec_m_date, end_vdt |-> LAST_DT]

Window(now_hour) ==
    LET rec_m_date == now_hour - 3
        latest_lead_vdt == now_hour - 8 + 126
    IN  IF latest_lead_vdt <= LAST_DT
        THEN [start_vdt |-> latest_lead_vdt - fcast_period,
              end_vdt |-> latest_lead_vdt]
        ELSE [start_vdt |-> IF rec_m_date >= FIRST_DT THEN rec_m_date
                            ELSE FIRST_DT,
              end_vdt |-> LAST_DT]

InitWindow ==
    /\ wn_pc = "call"
    /\ wn_now \in FIRST_DT..(FIRST_DT + MaxLate)
    /\ wn_out = <<>>
    /\ ProbsIdle
    /\ AggIdle
    /\ MainIdle
    /\ BdIdle
    /\ WorkerIdle
    /\ ParIdle
    /\ DerivIdle
    /\ WindIdle
    /\ PlotIdle
    /\ FnamesIdle
    /\ HtmlIdle

\* main up to the choice of start_vdt and end_vdt
ChooseWindow ==
    /\ wn_pc = "call"
    /\ wn_out' = Window(wn_now)
    /\ wn_pc' = "done"
    /\ UNCHANGED wn_now
    /\ UNCHANGED notWindowVars

NextWindow == ChooseWindow

SpecWindow == InitWindow /\ [][NextWindow]_vars

(***************************************************************************)
(* Properties of the probability functions (SpecProbs).                    *)
(***************************************************************************)
\* p >= q for two probabilities kept as fractions
FracGe(p, q) == p.num * q.den >= q.num * p.den

\* the comparison calc_probs applies to threshold k of the list
PSatisfies(i, l, k) ==
    IF p_threshs[k] = 0 /\ p_temp
    THEN p_cube[i].data[l] <= p_threshs[k]
    ELSE p_cube[i].data[l] >= p_threshs[k]

\* three members with wind speed 10, 16 and 20 knots on one level
WindScenarioCube ==
    <<[realization |-> 1, data |-> [l \in {0} |-> 10]],
      [realization |-> 2, data |-> [l \in {0} |-> 16]],
      [realization |-> 3, data |-> [l \in {0} |-> 20]]>>

\* C1: every probability returned by calc_probs, rain_probs and
\* vis_temp_probs for a non-empty cube lies in the closed range 0 to 100.
C1_ProbInRange ==
    p_op # "none" =>
        \A k \in 1..Len(p_out) : \A l \in PLevels :
            /\ p_out[k][l].den > 0
            /\ 0 <= p_out[k][l].num
            /\ p_out[k][l].num <= 100 * p_out[k][l].den

\* a probability strictly between 0 and 100 has been returned
C1_Witness ==
    /\ p_op = "vis"
    /\ Len(p_cube) = MaxMembers
    /\ \E k \in 1..Len(p_out) : \E l \in PLevels :
          /\ 0 < p_out[k][l].num
          /\ p_out[k][l].num < 100 * p_out[k][l].den

\* C2: for each threshold and each level, calc_probs returns 100 times the
\* number of members satisfying the comparison divided by the number of
\* members of the cube; members 10, 16, 20 give 200/3 at threshold 12 and 0
\* at threshold 25.
C2_ProbIsMemberFraction ==
    /\ p_op = "calc" =>
          \A k \in 1..Len(p_out) : \A l \in PLevels :
              /\ p_out[k][l].den = Len(p_cube)
              /\ p_out[k][l].num =
                    100 * Cardinality({i \in 1..Len(p_cube) : PSatisfies(i, l, k)})
    /\ calc_probs(WindScenarioCube, 12, FALSE)[0] = [num |-> 200, den |-> 3]
    /\ calc_probs(WindScenarioCube, 25, FALSE)[0] = [num |-> 0, den |-> 3]

\* calc_probs has returned a probability of one member in two at some level
C2_Witness ==
    /\ p_op = "calc"
    /\ Len(p_cube) = 2
    /\ \E k \in 1..Len(p_out) : \E l \in PLevels :
          p_out[k][l] = [num |-> 100, den |-> 2]

\* threshold k of the list is evaluated with the exceedance comparison >=
PExceedance(k) == p_op = "rain" \/ ~(p_threshs[k] = 0 /\ p_temp)

\* C4: in exceedance mode, for thresholds t1 < t2 on the same cube and level
\* the probability for t1 is at least the probability for t2.
C4_ExceedanceMonotone ==
    p_op \in {"calc", "rain"} =>
        \A i, j \in 1..Len(p_out) : \A l \in PLevels :
            (p_threshs[i] < p_threshs[j] /\ PExceedance(i) /\ PExceedance(j))
                => FracGe(p_out[i][l], p_out[j][l])

\* two thresholds t1 < t2 whose exceedance probabilities differ
C4_Witness ==
    /\ p_op \in {"calc", "rain"}
    /\ p_threshs[1] < p_threshs[2]
    /\ PExceedance(1) /\ PExceedance(2)
    /\ \E l \in PLevels : ~FracGe(p_out[2][l], p_out[1][l])

\* three members with temperature -1, 0 and 2 Celsius on one level
FreezingScenarioCube ==
    <<[realization |-> 1, data |-> [l \in {0} |-> -1]],
      [realization |-> 2, data |-> [l \in {0} |-> 0]],
      [realization |-> 3, data |-> [l \in {0} |-> 2]]>>

\* the members of p_cube at or under, and at or over, a threshold on a level
PUnder(l, t) == {i \in 1..Len(p_cube) : p_cube[i].data[l] <= t}
POver(l, t) == {i \in 1..Len(p_cube) : p_cube[i].data[l] >= t}

\* C12: calc_probs counts the members whose value is <= the threshold when
\* the threshold is 0 and the variable is temperature, and the members
\* whose value is >= the threshold in every other case; temperatures -1, 0
\* and 2 with the freezing threshold give 2 members of 3.
C12_UnderOnlyAtFreezing ==
    /\ p_op = "calc" =>
          \A k \in 1..Len(p_out) : \A l \in PLevels :
              /\ (p_temp /\ p_threshs[k] = 0) =>
                    p_out[k][l].num = 100 * Cardinality(PUnder(l, 0))
              /\ (~p_temp \/ p_threshs[k] # 0) =>
                    p_out[k][l].num = 100 * Cardinality(POver(l, p_threshs[k]))
    /\ calc_probs(FreezingScenarioCube, 0, TRUE)[0] = [num |-> 200, den |-> 3]
    /\ calc_probs(FreezingScenarioCube, 2, TRUE)[0] = [num |-> 100, den |-> 3]
    /\ calc_probs(FreezingScenarioCube, 0, FALSE)[0] = [num |-> 200, den |-> 3]
    /\ calc_probs(FreezingScenarioCube, -1, FALSE)[0] = [num |-> 300, den |-> 3]

\* calc_probs has run for temperature on the freezing threshold and on
\* another one, on a cube where <= and >= count different members for both
C12_Witness ==
    /\ p_op = "calc"
    /\ p_temp
    /\ p_threshs[1] = 0
    /\ p_threshs[2] # 0
    /\ \E l \in PLevels :
          /\ Cardinality(PUnder(l, 0)) # Cardinality(POver(l, 0))
          /\ Cardinality(PUnder(l, p_threshs[2]))
                # Cardinality(POver(l, p_threshs[2]))
          /\ p_out[1][l].num = 100 * Cardinality(PUnder(l, 0))
          /\ p_out[2][l].num = 100 * Cardinality(POver(l, p_threshs[2]))

(***************************************************************************)
(* Properties of the hour loops (SpecAgg).                                 *)
(***************************************************************************)
\* every ordering of a list
Orderings(seq) ==
    {[i \in 1..Len(seq) |-> seq[f[i]]] :
        f \in {g \in [1..Len(seq) -> 1..Len(seq)] :
                 \A i, j \in 1..Len(seq) : g[i] = g[j] => i = j}}

\* the cube of one hour the probabilities are computed from
HourCubeOf(sel, cube_list, h) ==
    IF sel = "rain" THEN MaxInHour(HourSubCubes(cube_list, h))
    ELSE Merge(HourCubeList(cube_list, h))[1]

\* the hours of the window the loop has visited that have a fragment
FilledHours == {h \in 0..(a_hour - 1) : HourCubeList(a_cubes, h) # <<>>}

\* C3: an hour bucket with zero member contributions yields no probability,
\* is skipped, and the hour loop goes on with the remaining hours.
C3_EmptyBucketSkipped ==
    /\ a_pc = "raised" => HourCubeList(a_cubes, a_hour) # <<>>
    /\ a_pc # "idle" =>
          \A k \in DOMAIN a_probs : Len(a_probs[k]) = Cardinality(FilledHours)

\* no two fragments of the list hold the same (realization, valid time)
UniqueKeys(cube_list) ==
    \A i, j \in 1..Len(cube_list) :
        (i # j /\ cube_list[i].realization = cube_list[j].realization)
            => DOMAIN cube_list[i].data \cap DOMAIN cube_list[j].data = {}

CountMode(cube, t, mode) ==
    Cardinality({i \in 1..Len(cube) :
                    IF mode = "le" THEN cube[i].data[0] <= t
                    ELSE cube[i].data[0] >= t})

\* every probability of the hours visited is the share of the members
\* counted with the comparison mode(k) gives for threshold k
ComputedWith(mode(_)) ==
    a_pc # "idle" =>
        \A h \in 0..(a_hour - 1) : \A k \in DOMAIN a_probs :
            LET cube == HourCubeOf(a_sel, a_cubes, h)
            IN  a_probs[k][h + 1][0] =
                    [num |-> 100 * CountMode(cube, ThreshsOf(a_sel)[k], mode(k)),
                     den |-> Len(cube)]

RECURSIVE FirstOfEachMember(_, _)
FirstOfEachMember(hour_cube_list, seen) ==
    IF hour_cube_list = <<>> THEN <<>>
    ELSE IF Head(hour_cube_list).realization \in seen
         THEN FirstOfEachMember(Tail(hour_cube_list), seen)
         ELSE <<Head(hour_cube_list)>>
              \o FirstOfEachMember(Tail(hour_cube_list),
                                   seen \cup {Head(hour_cube_list).realization})

\* C16: in the series of a site and variable each (member, valid time)
\* appears at most once; of two fragments with the same member and valid
\* time the earlier one is kept and the later one discarded: every hour
\* with a fragment gets the probabilities of the first slice of each
\* member, and a run stops only at an hour without fragments.
C16_FirstWriteWins ==
    (a_pc # "idle" /\ a_sel # "rain") =>
        /\ a_pc = "raised" => HourCubeList(a_cubes, a_hour) = <<>>
        /\ \A h \in 0..(a_hour - 1) : \A k \in DOMAIN a_probs :
              a_probs[k][h + 1] =
                  ProbCubes(a_sel,
                            FirstOfEachMember(HourCubeList(a_cubes, h), {}))[k]

\* the five-minute rates of member r in the list valid in hour h
RatesInHour(cube_list, r, h) ==
    {cube_list[i].data[t][0] :
        <<i, t>> \in {x \in (1..Len(cube_list))
                             \X ((h * SubsPerHour)..((h + 1) * SubsPerHour - 1)) :
                         /\ cube_list[x[1]].realization = r
                         /\ x[2] \in DOMAIN cube_list[x[1]].data}}

\* the members with a five-minute rate valid in hour h
MembersInHour(cube_list, h) ==
    {r \in AggReals : RatesInHour(cube_list, r, h) # {}}

\* C17: for rain the fragments are placed into five-minute sub-windows and
\* grouped by hour, and for each member and hour the value compared with
\* the rain thresholds is the maximum of the member's five-minute rates
\* valid in that hour.
C17_RainMaxInHour ==
    a_sel = "rain" =>
        \A h \in 0..(a_hour - 1) : \A k \in DOMAIN a_probs :
            a_probs[k][h + 1][0] =
                [num |-> 100 * Cardinality(
                            {r \in MembersInHour(a_cubes, h) :
                                SetMax(RatesInHour(a_cubes, r, h))
                                    >= RAIN_THRESHS[k]}),
                 den |-> Cardinality(MembersInHour(a_cubes, h))]

\* a finished rain run with an hour where a member reaches a threshold in
\* a later five-minute sub-window of the hour but not in the first one
C17_Witness ==
    /\ a_sel = "rain"
    /\ a_pc = "done"
    /\ \E h \in 0..(NumHours - 1) : \E k \in DOMAIN a_probs :
          \E r \in MembersInHour(a_cubes, h) :
              /\ SetMax(RatesInHour(a_cubes, r, h)) >= RAIN_THRESHS[k]
              /\ \A i \in 1..Len(a_cubes) :
                    (a_cubes[i].realization = r
                        /\ h * SubsPerHour \in DOMAIN a_cubes[i].data)
                    => a_cubes[i].data[h * SubsPerHour][0] < RAIN_THRESHS[k]
              /\ a_probs[k][h + 1][0].num > 0

\* C18: the input fragments are immutable: no step of rain_plots,
\* vis_sfc_temp_plots or probs_and_plots changes the coordinates or the
\* data of a fragment of the list it was handed.
C18_FragmentsImmutable == [][a_cubes' = a_cubes]_vars

Ascending(seq) == \A i \in 1..(Len(seq) - 1) : seq[i] <= seq[i + 1]

Descending(seq) == \A i \in 1..(Len(seq) - 1) : seq[i] >= seq[i + 1]

\* C20 as stated: every threshold list handed to a probability computation
\* is in monotonically ascending order.
C20_ThreshsAscending ==
    a_pc # "idle" => Ascending(ThreshsOf(a_sel))

\* C20 amended: every threshold list handed to a probability computation
\* is in monotonic order, ascending for wind, temperature, surface
\* temperature, relative humidity and rain, descending for visibility.
C20_ThreshsMonotonic ==
    a_pc # "idle" =>
        IF a_sel = "vis" THEN Descending(ThreshsOf(a_sel))
        ELSE Ascending(ThreshsOf(a_sel))

\* a finished visibility run: one probability per hour for each threshold
\* of the list, whose first threshold is the largest
C20_Witness ==
    /\ a_sel = "vis"
    /\ a_pc = "done"
    /\ DOMAIN a_probs = DOMAIN VIS_THRESHS
    /\ \A k \in DOMAIN a_probs : Len(a_probs[k]) = NumHours
    /\ \A k \in 2..Len(VIS_THRESHS) : VIS_THRESHS[1] > VIS_THRESHS[k]

(***************************************************************************)
(* Properties of m_uk_leeming.main (Spec).                                 *)
(***************************************************************************)
\* the fragments of one variable and site in the results main collected
RECURSIVE Collected(_, _, _)
Collected(items, v, name) ==
    IF items = <<>> THEN <<>>
    ELSE Head(items)[v][name] \o Collected(Tail(items), v, name)

\* C5: in the new-data path, extending the merged collections and all later
\* aggregation begin only after each of the six worker tasks has returned
\* its result; main never works on the results of a subset of the workers.
C5_FanInAfterAllWorkers ==
    (new_data = "yes" /\ (main_pc \in {"fanin", "raised_fanin"}
                          \/ cube_lists # EmptyLists)) =>
        /\ \A h \in BatchHours : w_pc[h] = "returned"
        /\ Len(out_list) = Len(Processes)
        /\ \A h \in BatchHours :
              \E i \in 1..Len(out_list) : out_list[i] = WorkerResult(h, m_input)

\* the fan-in has extended a collection
C5_Witness ==
    /\ new_data = "yes"
    /\ main_pc = "raised_fanin"
    /\ cube_lists["wind"][SITE_NAMES[1]] # <<>>

\* C6: once the fan-in step is over, every merged collection holds exactly
\* the fragments the workers returned for its variable and site.
C6_FanInMergesAll ==
    (new_data = "yes" /\ main_pc \notin {"start", "collect", "close", "fanin"}) =>
        \A v \in Vars : \A name \in Sites :
            cube_lists[v][name] = Collected(out_list, v, name)

(***************************************************************************)
(* Properties of bd_uas_forecast.main (SpecBd).                            *)
(***************************************************************************)
\* C10: a failure in one site's pipeline does not keep the remaining sites
\* of the site loop from being processed: when the loop is over, the
\* pipeline of every site has been entered.
C10_SitesIsolated ==
    bd_pc \in {"done", "raised"} => bd_i >= Len(TRIAL_SITES)

(***************************************************************************)
(* Properties of data_from_files (SpecWorker).                             *)
(***************************************************************************)
\* how many times a list holds the fragment of a member and file number
FragCount(list, member, f_num) ==
    Cardinality({i \in 1..Len(list) :
                    list[i] = [member |-> member, f_num |-> f_num]})

\* the site passes made after pass k that ran the six derivations
LaterBodies(k) ==
    {j \in (k + 1)..Len(d_hist) :
        d_hist[j].s_ok /\ d_hist[j].m_ok /\ d_hist[j].orog = "ok"}

\* C8: when the files of a member, file number and site are there, a
\* derivation that fails leaves its own list without the fragment and only
\* that list: each of the six lists of the site holds the fragment once
\* unless its own derivation failed, at this site and at every site, file
\* and member visited later; and a failing derivation never ends the
\* worker, which goes on to every member, file number and site.
C8_DerivationFailureIsolated ==
    /\ \A k \in 1..Len(d_hist) :
          LET e == d_hist[k]
          IN  (e.s_ok /\ e.m_ok /\ e.orog = "ok") =>
                  \A v \in Vars :
                      FragCount(d_cubes[v][e.site], e.member, e.f_num) =
                          IF Fails(v, e.missing, e.failing) THEN 0 ELSE 1
    /\ d_pc = "raised" => d_hist[Len(d_hist)].orog = "raise"
    /\ d_pc = "returned" =>
          \A m \in 1..d_members : \A f \in 1..d_nf :
              \A i \in 1..Len(SITE_NAMES) :
                  \E k \in 1..Len(d_hist) :
                      /\ d_hist[k].member = m
                      /\ d_hist[k].f_num = f
                      /\ d_hist[k].site = SITE_NAMES[i]

\* a file without the pressure field: relative humidity is absent and wind
\* speed present for that member and file, and a later pass has appended
\* its relative humidity
C8_Witness ==
    \E k \in 1..Len(d_hist) :
        LET e == d_hist[k]
        IN  /\ e.s_ok /\ e.m_ok /\ e.orog = "ok"
            /\ e.missing = {"PRES"}
            /\ FragCount(d_cubes["rel_hum"][e.site], e.member, e.f_num) = 0
            /\ FragCount(d_cubes["wind"][e.site], e.member, e.f_num) = 1
            /\ \E j \in LaterBodies(k) :
                  FragCount(d_cubes["rel_hum"][d_hist[j].site],
                            d_hist[j].member, d_hist[j].f_num) = 1

\* the site passes come in the order of the three loops
HistInLoopOrder ==
    \A k \in 1..Len(d_hist) :
        LET ns == Len(SITE_NAMES)
        IN  /\ d_hist[k].member = ((k - 1) \div (d_nf * ns)) + 1
            /\ d_hist[k].f_num = (((k - 1) \div ns) % d_nf) + 1
            /\ d_hist[k].site = SITE_NAMES[((k - 1) % ns) + 1]

\* C9: when the surface file, the model-level file or the orography file of
\* a member and file number is absent at a site, no list of that site gets
\* a fragment of that member and file number; the loops go on in order
\* over the remaining sites, files and members, and the worker returns
\* after the last of them.
C9_AbsentFileSkipped ==
    /\ \A k \in 1..Len(d_hist) :
          LET e == d_hist[k]
          IN  (~e.s_ok \/ ~e.m_ok \/ e.orog = "absent") =>
                  \A v \in Vars :
                      FragCount(d_cubes[v][e.site], e.member, e.f_num) = 0
    /\ HistInLoopOrder
    /\ d_pc = "returned" =>
          Len(d_hist) = d_members * d_nf * Len(SITE_NAMES)
    /\ (d_pc = "copy" /\ d_hist # <<>>
            /\ d_hist[Len(d_hist)].orog = "absent") =>
          (d_member <= d_members /\ d_fnum <= d_nf)

\* the worker has returned; a model-level file was absent and left nothing
\* in the lists, and a later pass has appended its fragments
C9_Witness ==
    /\ d_pc = "returned"
    /\ \E k \in 1..Len(d_hist) :
          LET e == d_hist[k]
          IN  /\ e.s_ok /\ ~e.m_ok
              /\ \A v \in Vars :
                    FragCount(d_cubes[v][e.site], e.member, e.f_num) = 0
              /\ \E j \in LaterBodies(k) :
                    \A v \in Vars :
                        FragCount(d_cubes[v][d_hist[j].site],
                                  d_hist[j].member, d_hist[j].f_num) = 1

\* the existence tests of the site body and of the removal see the scratch
\* directory: the files of the current member and file number are there
\* exactly when the call holds them
ScratchSeen ==
    d_pc \in {"site", "remove"} =>
        /\ d_files.s_ok <=> WorkerScratchFname("d", d_fnum, d_member) \in d_scratch
        /\ d_files.m_ok <=> WorkerScratchFname("e", d_fnum, d_member) \in d_scratch

\* C28: when data_from_files returns, none of the scratch files it copied
\* (the surface and model-level files of every member and file number, and
\* the pd000 orography file) remains in the scratch directory, whether the
\* derivations on them succeeded or failed.
C28_ScratchEmptyOnReturn ==
    /\ ScratchSeen
    /\ d_pc = "returned" => d_scratch = {}

\* the worker has returned after copying both files of several file numbers,
\* '000' among them; at one site a derivation failed and at another all six
\* succeeded
C28_Witness ==
    /\ d_pc = "returned"
    /\ d_zero
    /\ d_nf >= 2
    /\ \E k \in 1..Len(d_hist) :
          /\ d_hist[k].m_ok /\ d_hist[k].s_ok /\ d_hist[k].orog = "ok"
          /\ d_hist[k].failing # {}
    /\ \E k \in 1..Len(d_hist) :
          /\ d_hist[k].m_ok /\ d_hist[k].s_ok /\ d_hist[k].orog = "ok"
          /\ d_hist[k].failing = {} /\ d_hist[k].missing = {}

(***************************************************************************)
(* Properties of concurrent data_from_files calls (SpecPar).               *)
(***************************************************************************)
\* C11: no fragment list and no scratch path is written by two workers:
\* every list a worker appends to was created by its own call, every
\* scratch path it writes holds its own batch hour, and a worker that has
\* not finished can always take its next step, whatever the others do.
C11_WorkersShareNothing ==
    /\ \A w1, w2 \in par_writes :
          (w1[1].kind \in {"list", "file"} /\ w1[1] = w2[1]) => w1[2] = w2[2]
    /\ \A w \in par_writes : w[1].kind = "list" => w \in par_created
    /\ \A w \in par_writes : w[1].kind = "file" => w[1].hour = w[2]
    /\ \A h \in ParHours : par_pc[h] < Len(WorkerOps(h)) => ENABLED ParStep(h)

\* two workers have copied the same file of the same member and appended
\* to their lists, and one of them has finished while the other has not
C11_Witness ==
    \E w1, w2 \in par_writes :
        /\ w1[2] # w2[2]
        /\ w1[1].kind = "file" /\ w2[1].kind = "file"
        /\ w1[1].name = w2[1].name
        /\ w1[1].f_num = w2[1].f_num
        /\ w1[1].member = w2[1].member
        /\ \E a1, a2 \in par_writes :
              a1[1].kind = "list" /\ a2[1].kind = "list" /\ a1[2] # a2[2]
        /\ par_pc[w1[2]] = Len(WorkerOps(w1[2]))
        /\ par_pc[w2[2]] < Len(WorkerOps(w2[2]))

(***************************************************************************)
(* Properties of the derivations (SpecDeriv).                              *)
(***************************************************************************)
\* C14 as stated: every value a derivation returns has a valid time t in
\* the half-open window first <= t < last handed to the derivation; a value
\* whose valid time is last is not returned.
C14_WindowHalfOpen ==
    dv_pc = "returned" =>
        \A vdt \in DOMAIN dv_out.data :
            start_vdt <= vdt /\ vdt < PassedEnd(dv_kind)

\* C14 amended: the valid times of the cube a derivation returns are the
\* valid times t of the loaded cube in the closed window first <= t <= last
\* handed to the derivation (for rain, last is end_vdt plus one hour); the
\* value whose valid time is last is returned, and the derivation fails
\* only when no valid time is in the window.
C14_WindowClosed ==
    LET kept == {vdt \in DOMAIN dv_cube.data :
                    start_vdt <= vdt /\ vdt <= PassedEnd(dv_kind)}
    IN  /\ dv_pc = "returned" => (DOMAIN dv_out.data = kept /\ kept # {})
        /\ dv_pc = "failed" => kept = {}

\* a cube has come back holding the value valid at the end of the window,
\* and without the values valid outside it
C14_Witness ==
    /\ dv_pc = "returned"
    /\ PassedEnd(dv_kind) \in DOMAIN dv_out.data
    /\ PassedEnd(dv_kind) + 1 \in DOMAIN dv_cube.data
    /\ start_vdt - 1 \in DOMAIN dv_cube.data

\* C15: every cube a derivation returns has exactly one realization: the
\* sentinel 100 when the loaded cube has no realization coordinate, and the
\* loaded cube's own realization otherwise.
C15_MemberIdAlways ==
    dv_pc = "returned" =>
        /\ Cardinality(dv_out.realization) = 1
        /\ dv_cube.realization = {} => dv_out.realization = {CONTROL_REALIZATION}
        /\ dv_cube.realization # {} => dv_out.realization = dv_cube.realization

\* a control-run cube has come back with the sentinel
C15_Witness ==
    /\ dv_pc = "returned"
    /\ dv_cube.realization = {}
    /\ dv_out.realization = {CONTROL_REALIZATION}
    /\ DOMAIN dv_out.data # DOMAIN dv_cube.data

\* C19: a relative humidity returned by the derivation lies in the range 0
\* to 100: a value outside it has been clipped (the cube returned carries
\* no mark of any kind, so a value outside the range is never flagged).
C19_RelHumInRange ==
    (dv_pc = "returned" /\ dv_kind = "rel_hum") =>
        \A vdt \in DOMAIN dv_out.data :
            /\ 0 <= dv_out.data[vdt].num
            /\ dv_out.data[vdt].num <= 100 * dv_out.data[vdt].den

(***************************************************************************)
(* Properties of get_wind_spd (SpecWind).                                  *)
(***************************************************************************)
\* C21 as stated: the wind components are combined in their native units
\* and converted to knots only afterwards; no component is in knots before
\* the combination.
C21_CombineThenConvert ==
    ws_pc \in {"loaded", "u_updated", "v_updated", "combined"} =>
        /\ ws_u.units = "m s-1"
        /\ ws_v.units = "m s-1"

\* C21 amended: each wind component is converted to knots first and the
\* components are combined only afterwards; the speed is the magnitude of
\* the native components converted to knots.
C21_ConvertThenCombine ==
    /\ ws_pc \in {"v_updated", "combined"} =>
          /\ ws_u.units = "knots"
          /\ ws_v.units = "knots"
    /\ ws_pc = "combined" =>
          /\ ws_out.units = "knots"
          /\ ws_out.sq =
                [num |-> (ws_in.u * ws_in.u + ws_in.v * ws_in.v)
                             * KnotsPerMs.num * KnotsPerMs.num,
                 den |-> KnotsPerMs.den * KnotsPerMs.den]

\* a wind speed has been computed from two non-zero components
C21_Witness ==
    /\ ws_pc = "combined"
    /\ ws_in.u # 0
    /\ ws_in.v # 0
    /\ ws_out.sq.num > 0

(***************************************************************************)
(* Properties of get_bd_df's make_plot calls (SpecPlot).                   *)
(***************************************************************************)
\* the parameter of the last make_plot call
LastParam == PlotParams[((pl_k - 1) % Len(PlotParams)) + 1]

\* C22 as stated: after any sequence of make_plot calls made by get_bd_df
\* the module-level threshold tables and make_plot's default thresholds
\* have their original contents, and the list a caller passes as
\* thresholds is unchanged when make_plot returns.
C22_ThresholdsNeverMutated ==
    pl_pc # "idle" =>
        /\ pl_tables = ThresholdTables
        /\ pl_default = DefaultThresholds
        /\ pl_after = pl_passed

\* C22 amended: after any sequence of make_plot calls made by get_bd_df the
\* module-level threshold tables and make_plot's default thresholds have
\* their original contents; the list a call is passed, always a copy of a
\* table, has one y-axis limit appended when make_plot returns.
C22_TablesNeverMutated ==
    pl_pc # "idle" =>
        /\ pl_tables = ThresholdTables
        /\ pl_default = DefaultThresholds
        /\ pl_k > 0 =>
              IF LastParam \in {"Wind directions", "Cloud"}
              THEN pl_after = pl_passed /\ pl_passed = DefaultThresholds
              ELSE /\ Len(pl_after) = Len(pl_passed) + 1
                   /\ SubSeq(pl_after, 1, Len(pl_passed)) = pl_passed
                   /\ \E name \in DOMAIN ThresholdTables :
                         pl_passed = ThresholdTables[name]

\* the visibility plot of a second site has returned: its list, a copy of
\* VIS_THRESHOLDS, got the lower y-axis limit appended and the table still
\* has its two thresholds
C22_Witness ==
    /\ pl_k > Len(PlotParams)
    /\ LastParam = "Visibility"
    /\ pl_passed = <<1000, 200>>
    /\ pl_after = <<1000, 200, 0>>
    /\ pl_tables.VIS_THRESHOLDS = <<1000, 200>>

(***************************************************************************)
(* Properties of get_fname_strs (SpecFnames).                              *)
(***************************************************************************)
\* the lead hours the file of number n covers
CoveredLeads(n) == IF n = 0 THEN 0..3 ELSE (n + 1)..(n + 3)

\* C23: get_fname_strs returns a file number n exactly when some lead hour
\* covered by its file gives a valid time in start_vdt..end_vdt, where file
\* 000 covers leads 0 to 3 and every other file n leads n+1 to n+3; each
\* selected number appears once and the list is ascending.
C23_FileNumbersOfWindow ==
    fn_pc = "returned" =>
        /\ \A k \in DOMAIN FNAME_NUMS :
              (\E i \in DOMAIN fn_out.f_nums : fn_out.f_nums[i] = FNAME_NUMS[k])
              <=> (\E lead \in CoveredLeads(FNAME_NUMS[k]) :
                      /\ fn_in.start_vdt <= fn_in.m_date + lead
                      /\ fn_in.m_date + lead <= fn_in.end_vdt)
        /\ \A i \in DOMAIN fn_out.f_nums :
              \E k \in DOMAIN FNAME_NUMS : fn_out.f_nums[i] = FNAME_NUMS[k]
        /\ \A i, j \in DOMAIN fn_out.f_nums :
              i < j => fn_out.f_nums[i] < fn_out.f_nums[j]

\* the window starts at the issue time: the file 000 and a later file
\* were selected and another file was left out
C23_Witness ==
    /\ fn_pc = "returned"
    /\ fn_in.m_date = fn_in.start_vdt
    /\ Len(fn_out.f_nums) >= 2
    /\ fn_out.f_nums[1] = 0
    /\ Len(fn_out.f_nums) < Len(FNAME_NUMS)

(***************************************************************************)
(* Properties of update_html (SpecHtml).                                   *)
(***************************************************************************)
\* the option lines of the dropdown, and the other lines, in page order
OptionsOf(lines) == SelectSeq(lines, LAMBDA l : l.kind = "option")

HeadOf(lines) == SelectSeq(lines, LAMBDA l : l.kind # "option")

DatesOf(lines) ==
    [i \in 1..Len(OptionsOf(lines)) |-> OptionsOf(lines)[i].date]

\* a date 7 or more days before now
WeekOld(date) == h_now - date >= 7 * 24

\* C24: update_html on an existing page removes from the date dropdown
\* every option whose date is 7 or more days before now and archives and
\* deletes the image files of exactly those dates; the younger options,
\* the newly appended option and all lines at or before the 'select id'
\* line are kept.
C24_WeekOldOptionsRemoved ==
    [][(h_pc = "html" /\ h_page # <<>>) =>
          LET old_dates == {h_page.first_lines[i].date :
                               i \in {j \in DOMAIN h_page.first_lines :
                                         /\ h_page.first_lines[j].kind = "option"
                                         /\ WeekOld(h_page.first_lines[j].date)}}
              head == HeadOf(h_page.first_lines)
          IN  /\ DatesOf(h_page'.first_lines) =
                     DatesOf(SelectSeq(h_page.first_lines,
                                       LAMBDA l : ~WeekOld(l.date)))
                         \o <<h_date>>
              /\ SubSeq(h_page'.first_lines, 1, Len(head)) = head
              /\ Len(h_page'.first_lines) =
                     Len(head) + Len(DatesOf(h_page'.first_lines))
              /\ h_imgs' = h_imgs \ old_dates
              /\ h_mass' = h_mass \cup (h_imgs \cap old_dates)]_vars

\* the third call found an option exactly seven days old and one an hour
\* younger: the first went to the archive, the second stayed
C24_Witness ==
    /\ h_pc = "plots"
    /\ h_calls = 3
    /\ h_mass = {h_date - 165}
    /\ DatesOf(h_page.first_lines) = <<h_date - 164, h_date>>
    /\ h_imgs = {h_date - 164, h_date}

\* C29: after any sequence of update_html calls the dropdown has exactly
\* one option marked selected, the option of the most recently supplied
\* date, and no date appears in it twice.
C29_OneSelectedNoDuplicate ==
    h_page # <<>> =>
        LET options == OptionsOf(h_page.first_lines)
        IN  /\ Cardinality({i \in DOMAIN options : options[i].selected}) = 1
            /\ options[Len(options)].selected
            /\ options[Len(options)].date = h_page.shown
            /\ h_pc = "plots" => options[Len(options)].date = h_date
            /\ \A i, j \in DOMAIN options :
                  options[i].date = options[j].date => i = j

(***************************************************************************)
(* Properties of main's collection step (FairSpec).                        *)
(***************************************************************************)
AllPut == \A h \in BatchHours : w_pc[h] = "returned"

Collected6 == Len(out_list) = Len(Processes) /\ main_pc # "collect"

\* C25: main's collection step eventually obtains exactly six worker
\* results if and only if every worker puts its result on the queue; if a
\* worker ends without putting a result, the collection step blocks
\* forever and no site is ever processed.
C25_CollectsIffAllPut ==
    /\ AllPut ~> Collected6
    /\ [](Len(out_list) <= Len(Processes))
    /\ [](Collected6 => AllPut)
    /\ []((\E h \in BatchHours : w_pc[h] = "crashed") =>
              /\ main_pc \in {"start", "collect"}
              /\ m_sites = 0)
    /\ (\E h \in BatchHours : w_pc[h] = "crashed")
           ~> [](main_pc = "collect" /\ queue = <<>>)

\* main is blocked in queue.get(): five results are collected, the queue
\* is empty and the sixth worker has ended without putting a result
C25_Witness ==
    /\ main_pc = "collect"
    /\ queue = <<>>
    /\ Len(out_list) = Len(Processes) - 1
    /\ Cardinality({h \in BatchHours : w_pc[h] = "crashed"}) = 1
    /\ Cardinality({h \in BatchHours : w_pc[h] = "returned"})
          = Len(Processes) - 1

(***************************************************************************)
(* Properties of main's forecast window (SpecWindow).                      *)
(***************************************************************************)
WindowInTrial ==
    /\ wn_out.start_vdt <= wn_out.end_vdt
    /\ wn_out.end_vdt <= LAST_DT
    /\ wn_out.start_vdt >= FIRST_DT

WithoutEnd(cube_list) ==
    [i \in 1..Len(cube_list) |->
        [realization |-> cube_list[i].realization,
         data |-> [t \in DOMAIN cube_list[i].data \ {NumHours} |->
                      cube_list[i].data[t]]]]

\* C30: for a window of N whole hours probs_and_plots and
\* vis_sfc_temp_plots produce, for each threshold, exactly one probability
\* per hour for the N hours start_vdt .. end_vdt - 1h, in that order, and
\* what the fragments hold at end_vdt contributes to none of them: the
\* probabilities are those of the list cut off before end_vdt.
C30_OneProbabilityPerWindowHour ==
    (a_sel \in AggSels /\ a_pc # "idle") =>
        /\ a_hour <= NumHours
        /\ a_pc \in {"plot", "done"} => a_hour = NumHours
        /\ \A k \in DOMAIN a_probs :
              /\ Len(a_probs[k]) = a_hour
              /\ \A h \in 0..(a_hour - 1) :
                    LET hour_cubes ==
                            Merge(HourCubeList(WithoutEnd(a_cubes), h))
                    IN  /\ hour_cubes # <<>>
                        /\ a_probs[k][h + 1] =
                               ProbCubes(a_sel, hour_cubes[1])[k]

\* a finished visibility run over a list with a fragment whose value at
\* end_vdt differs from its value in the last hour of the window
C30_Witness ==
    /\ a_sel = "vis"
    /\ a_pc = "done"
    /\ \A k \in DOMAIN a_probs : Len(a_probs[k]) = NumHours
    /\ \E i \in 1..Len(a_cubes) :
          /\ {NumHours - 1, NumHours} \subseteq DOMAIN a_cubes[i].data
          /\ a_cubes[i].data[NumHours] # a_cubes[i].data[NumHours - 1]
====
